---------------------------- MODULE Spec2Model ----------------------------
(***************************************************************************)
(* A model of the filing ETL pipeline of apps/data-pipeline:               *)
(*   - the extraction worker (etl_worker/src/main.py) with the dedup       *)
(*     ledger client and job tracking (etl_worker/src/dynamo_utils.py),    *)
(*     the extraction engine's return values (etl_worker/src/extractor.py) *)
(*     and the ledger backfill script (scripts/backfill_dedup.py);         *)
(*   - the OCR queue publisher (etl_worker/src/ocr_queue.py) and the OCR   *)
(*     worker (etl_worker/src/ocr_worker.py).                              *)
(* Spec is the extraction worker, SpecEnqueue the publisher applied to its *)
(* inputs, SpecOcr the OCR queue and the OCR worker, SpecShards the shard  *)
(* loop of the extraction worker applied to lists of page records.        *)
(* SpecRecords, SpecManifest, SpecBbox, SpecGibberish, SpecRunOnce and     *)
(* SpecPublisher apply parts of the pipeline to inputs drawn at the start. *)
(* SpecChunked is the manifest splitter (scripts/trigger_batch.py) with    *)
(* the workers it submits, SpecTail the end of process_batch and a         *)
(* repeated run, SpecPeer two OCR workers with one job, SpecDelivery the   *)
(* OCR worker's loop under fair redelivery.                                *)
(***************************************************************************)
EXTENDS Integers, Sequences, FiniteSets, TLC

VARIABLES
    \* ---- extraction worker (main.py), one process at a time ----
    config,             \* get_config(): the environment of the run
    manifest,           \* the manifest CSV object: its data rows (object keys)
    pc,                 \* where main()/process_batch() stands
    manifest_rows,      \* process_batch: the rows pulled for this worker
    already_processed,  \* process_batch: the skip-set
    idx,                \* process_batch: rows of manifest_rows handled so far
    stats,              \* process_batch: JobStats
    all_pages,          \* process_batch: accumulated page records
    processed_items,    \* process_batch: buffer for batch_record_processed
    exit_code,          \* process exit status: "none" while running, "zero", "nonzero"
    \* ---- shared stores ----
    ledger,             \* dedup table: <<pk, source_id>> -> entry
    file_errors,        \* errors table, entries of this job: <<s3_key, error_type>>
    job_entry,          \* jobs table, the entry of this job
    output,             \* output bucket: shard key -> the lines of the shard
    \* ---- observations of the run (history) ----
    lastRow,            \* the row handled last: what happened to it, what was counted
    completeCalls,      \* the record_job_complete calls of this run, in order
    fetch_failed,       \* whether this run's manifest fetch failed
    faults,             \* whether anything outside the worker went wrong in this run
    failedAtStart,      \* the source ids with a FAILED entry when this run began
    prevRun,            \* summary of the previous run of the worker
    \* ---- OCR queue and OCR worker (ocr_queue.py, ocr_worker.py) ----
    ocr_config,         \* ocr_worker.main(): the environment of the OCR worker
    queue,              \* the OCR queue: messages [id, body, inflight]
    sent_total,         \* messages ever sent to the queue (the next message id)
    ocr_pc,             \* where ocr_worker.main() stands
    messages,           \* main(): the received batch still to handle [id, body]
    scale_in_protection_enabled,  \* main(): the feature flag
    task_protected,     \* main(): whether this message's enable call succeeded
    job,                \* the OcrJob parsed from the message in hand
    page_count,         \* _process_job: len(document)
    page_idx,           \* _process_job: position in job.broken_pages
    quickwit_records,   \* _process_job: patch records built so far
    bbox_objects,       \* output bucket: keys of the bounding-box objects
    patch_objects,      \* output bucket: patch key -> records
    ecs_protected,      \* ECS: whether scale-in protection is on for the task
    \* ---- observations of the OCR side (history) ----
    publish,            \* a call of enqueue_ocr_jobs: its arguments, where it stands, what it sent
    attempt,            \* the handling of the message in hand: what was done
    consumed,           \* the first job whose processing succeeded with a patch object in place
    protection_log,     \* the calls of the protection API so far: what became of them
    \* ---- manifest splitter (scripts/trigger_batch.py) ----
    peer,               \* a second OCR worker holding the same job: where its patch upload stands
    chunk_store,        \* the chunk CSVs under the manifest prefix, and the job submitted for them
    \* ---- extraction engine (extractor.py) ----
    engine_page         \* the page in the engine's hands: what it is, what the engine made of it

workerVars == <<config, manifest, pc, manifest_rows, already_processed, idx, stats,
                all_pages, processed_items, exit_code, ledger, file_errors,
                job_entry, output, lastRow, completeCalls, fetch_failed, faults,
                failedAtStart, prevRun>>

ocrVars == <<ocr_config, queue, sent_total, ocr_pc, messages,
             scale_in_protection_enabled, task_protected, job, page_count, page_idx,
             quickwit_records, bbox_objects, patch_objects, ecs_protected,
             publish, attempt, consumed, protection_log, chunk_store, engine_page, peer>>

vars == <<workerVars, ocrVars>>

-----------------------------------------------------------------------------
(* Bounds of the model *)

MaxRows == 2      \* data rows in the manifest CSV
MaxPages == 1     \* pages of a PDF document
MaxJobIndex == 1  \* AWS_BATCH_JOB_ARRAY_INDEX ranges over 0..MaxJobIndex
ChunkSize == 2    \* CHUNK_SIZE of the run
MaxShardBytes == 4  \* max_bytes of a shard, standing for 10 MiB
MaxShardPages == 3  \* page records handed to the shard loop

-----------------------------------------------------------------------------
(* Small helpers *)

Range(s) == {s[i] : i \in DOMAIN s}

SeqsUpTo(S, n) == UNION {[1..k -> S] : k \in 0..n}

Min(a, b) == IF a < b THEN a ELSE b

-----------------------------------------------------------------------------
(* Object keys and the source id derived from them.                         *)
(* A key is a sequence of tokens; "/" and "." are the separators, any other *)
(* token stands for a run of ordinary characters.                           *)

KeyA == <<"a", "/", "x", ".", "pdf">>         \* a/x.pdf
KeyB == <<"b", "/", "x", ".", ".", "htm">>    \* b/x..htm  (same source id as a/x.pdf)
KeyC == <<"z">>                               \* z         (no extension)

Keys == {KeyA, KeyB, KeyC}

\* The index of the last occurrence of tok in s, 0 when there is none (str.rfind).
RFind(s, tok) ==
    LET hits == {i \in DOMAIN s : s[i] = tok}
    IN  IF hits = {} THEN 0 ELSE CHOOSE i \in hits : \A j \in hits : j <= i

\* Path(key).name: what follows the last "/".
PathName(key) == SubSeq(key, RFind(key, "/") + 1, Len(key))

\* Path(key).stem: the name without its last suffix; a leading or a trailing "."
\* starts no suffix.
PathStem(key) ==
    LET name == PathName(key)
        i == RFind(name, ".")
    IN  IF 1 < i /\ i < Len(name) THEN SubSeq(name, 1, i - 1) ELSE name

\* str.rstrip('.')
RECURSIVE RStripDots(_)
RStripDots(s) ==
    IF s # <<>> /\ s[Len(s)] = "." THEN RStripDots(SubSeq(s, 1, Len(s) - 1)) ELSE s

\* source_id = Path(key).stem.rstrip('.')
SourceId(key) == RStripDots(PathStem(key))

SourceIds == {SourceId(k) : k \in Keys}

\* get_file_type: by extension
GetFileType(key) ==
    LET n == Len(key)
        ext == IF n >= 2 /\ key[n - 1] = "." THEN key[n] ELSE ""
    IN  IF ext = "pdf" THEN "pdf"
        ELSE IF ext \in {"htm", "html"} THEN "html"
        ELSE IF ext \in {"doc", "docx"} THEN "doc"
        ELSE "unknown"

-----------------------------------------------------------------------------
(* The dedup ledger (dynamo_utils.py, "Dedup functions") *)

Exchanges == {"HKEX"}

\* _make_pk: f"{exchange}#{job_type}"
MakePk(exchange, job_type) == <<exchange, "#", job_type>>

Pks == {MakePk(e, "extraction") : e \in Exchanges}

NoEntry == [status |-> "NONE", s3_key |-> <<>>]

\* The outcome of one call to the table: it succeeds, it fails with a ClientError
\* (which dynamo_utils catches), or it raises another exception (a connection
\* error, say), which dynamo_utils lets through.
DynOutcomes == {"ok", "client_error", "raise"}

\* record_failed: one put of a FAILED entry; True only when the put succeeded.
RecordFailed(led, exchange, source_id, s3_key, outcome) ==
    IF outcome = "ok"
    THEN [led EXCEPT ![<<MakePk(exchange, "extraction"), source_id>>] =
                        [status |-> "FAILED", s3_key |-> s3_key]]
    ELSE led

\* The COMPLETED puts of one batch_write_item request that the table accepted:
\* the items of `written` (those not returned as unprocessed), in request order,
\* a later put of the same key overwriting an earlier one.
RECURSIVE PutCompleted(_, _, _, _)
PutCompleted(led, pk, items, written) ==
    IF items = <<>> THEN led
    ELSE LET it == Head(items)
             led1 == IF it \in written
                     THEN [led EXCEPT ![<<pk, it.source_id>>] =
                                  [status |-> "COMPLETED", s3_key |-> it.s3_key]]
                     ELSE led
         IN  PutCompleted(led1, pk, Tail(items), written)

\* How one batch request and its one retry went: `first` is the outcome of the
\* request and `done1` the items (or keys) it handled, the others coming back as
\* unprocessed; `retry` and `done2` are the same for the retry of those.
BatchCalls(S) ==
    {[first |-> f, done1 |-> {}, retry |-> "ok", done2 |-> {}] :
        f \in {"client_error", "raise"}}
    \cup {[first |-> "ok", done1 |-> S, retry |-> "ok", done2 |-> {}]}
    \cup UNION {
           {[first |-> "ok", done1 |-> d1, retry |-> r, done2 |-> {}] :
               r \in {"client_error", "raise"}}
           \cup {[first |-> "ok", done1 |-> d1, retry |-> "ok", done2 |-> d2] :
                   d2 \in SUBSET (S \ d1)} : d1 \in (SUBSET S) \ {S}}

BatchWriteLimit == 25
BatchGetLimit == 100

\* The number of batches range(0, n, size) walks through.
NumBatches(n, size) == (n + size - 1) \div size

\* Whether a request or a retry of the batches of `items` raises something other
\* than a ClientError, which neither batch function catches.
BatchRaises(items, size, calls) ==
    \E b \in 1..NumBatches(Len(items), size) :
        LET batch == Range(SubSeq(items, (b - 1) * size + 1, Min(b * size, Len(items))))
        IN  \/ calls[b].first = "raise"
            \/ /\ calls[b].first = "ok"
               /\ batch \ calls[b].done1 # {}
               /\ calls[b].retry = "raise"

\* batch_record_processed: batches of 25 puts of COMPLETED entries from index i
\* on; a ClientError gives the batch up, unprocessed items are retried once.
RECURSIVE BatchRecordProcessed(_, _, _, _, _)
BatchRecordProcessed(led, exchange, items, i, calls) ==
    IF i > Len(items) THEN led
    ELSE LET pk == MakePk(exchange, "extraction")
             b == (i - 1) \div BatchWriteLimit + 1
             batch == SubSeq(items, i, Min(i + BatchWriteLimit - 1, Len(items)))
             c == calls[b]
             led1 == IF c.first # "ok" THEN led
                     ELSE PutCompleted(led, pk, batch, c.done1)
             led2 == IF c.first # "ok" \/ Range(batch) \ c.done1 = {} \/ c.retry # "ok"
                     THEN led1
                     ELSE PutCompleted(led1, pk, batch, c.done2 \ c.done1)
             raised == \/ c.first = "raise"
                       \/ /\ c.first = "ok" /\ Range(batch) \ c.done1 # {}
                          /\ c.retry = "raise"
         IN  IF raised THEN led2
             ELSE BatchRecordProcessed(led2, exchange, items, i + BatchWriteLimit, calls)

\* A check that takes every item it is returned for a processed one.
CompletedAmongAnyStatus(led, pk, ids) == {s \in ids : led[<<pk, s>>].status # "NONE"}

\* The ids among `ids` whose ledger item has status COMPLETED.
CompletedAmong(led, pk, ids) == {s \in ids : led[<<pk, s>>].status = "COMPLETED"}

\* batch_check_processed: batches of 100 keys from index i on; the ids whose item
\* a response returned with status COMPLETED. A ClientError leaves what was
\* gathered so far; unprocessed keys are retried once.
RECURSIVE BatchCheckProcessed(_, _, _, _, _, _)
BatchCheckProcessed(led, exchange, source_ids, i, calls, completed) ==
    IF i > Len(source_ids) THEN completed
    ELSE LET pk == MakePk(exchange, "extraction")
             b == (i - 1) \div BatchGetLimit + 1
             batch == Range(SubSeq(source_ids, i, Min(i + BatchGetLimit - 1, Len(source_ids))))
             c == calls[b]
             got1 == IF c.first # "ok" THEN {}
                     ELSE CompletedAmong(led, pk, batch \cap c.done1)
             got2 == IF c.first # "ok" \/ batch \ c.done1 = {} \/ c.retry # "ok" THEN {}
                     ELSE CompletedAmong(led, pk, (batch \ c.done1) \cap c.done2)
         IN  BatchCheckProcessed(led, exchange, source_ids, i + BatchGetLimit, calls,
                                 completed \cup got1 \cup got2)

-----------------------------------------------------------------------------
(* The extraction engine (extractor.py): what it returns for a document *)

\* The bytes of a downloaded object, as far as the engine's control flow goes:
\* what the content looks like, whether it parses, for a PDF one flag per page
\* saying whether is_gibberish holds of the page's text layer, and whether
\* OnnxTR OCR of its pages returns.
DocsOf(max_pages) ==
    {[magic |-> "pdf", readable |-> TRUE, gibberish |-> g, ocr_ok |-> TRUE] :
        g \in UNION {[1..n -> BOOLEAN] : n \in 1..max_pages}}
    \cup {[magic |-> m, readable |-> FALSE, gibberish |-> <<>>, ocr_ok |-> TRUE] :
             m \in {"pdf", "html"}}
    \cup {[magic |-> "html", readable |-> TRUE, gibberish |-> <<>>, ocr_ok |-> TRUE],
          [magic |-> "other", readable |-> TRUE, gibberish |-> <<>>, ocr_ok |-> TRUE]}

DocBytes == DocsOf(MaxPages)

\* str.upper(), str.lower(), str.strip() on the exchange strings of the model
Upper(str) == IF str = "hkex" THEN "HKEX" ELSE str

Lower(str) == IF str = "HKEX" THEN "hkex" ELSE str

Strip(str) == IF str = " " THEN "" ELSE str

\* extractor.py:73: ENABLE_INLINE_OCR when the environment does not set it.
InlineOcrDefault == FALSE

\* An extraction that hands a gibberish page's text layer on when OCR is
\* deferred.
ExtractPageTextKeepsText(is_gib, enable_inline_ocr, ocr_ok) ==
    IF is_gib THEN [text |-> "gibberish", ocr_required |-> TRUE]
    ELSE [text |-> "text", ocr_required |-> FALSE]

\* _extract_page_text: the text layer of a page that is not gibberish; for a
\* gibberish page, empty text when inline OCR is off, the OCR text when it is
\* on, and the gibberish text layer when the OCR raises.
ExtractPageText(is_gib, enable_inline_ocr, ocr_ok) ==
    IF ~is_gib THEN [text |-> "text", ocr_required |-> FALSE]
    ELSE IF ~enable_inline_ocr THEN [text |-> "", ocr_required |-> TRUE]
    ELSE IF ocr_ok THEN [text |-> "ocr", ocr_required |-> TRUE]
    ELSE [text |-> "gibberish", ocr_required |-> TRUE]

\* The ascending list of the page numbers in 1..n that satisfy `broken`.
RECURSIVE PagesWhere(_, _)
PagesWhere(flags, n) ==
    IF n = 0 THEN <<>>
    ELSE IF flags[n] THEN Append(PagesWhere(flags, n - 1), n)
    ELSE PagesWhere(flags, n - 1)

\* str.split(sep) on a key
RECURSIVE SplitOn(_, _)
SplitOn(s, sep) ==
    LET hits == {i \in DOMAIN s : s[i] = sep}
    IN  IF hits = {} THEN <<s>>
        ELSE LET i == CHOOSE h \in hits : \A g \in hits : h <= g
             IN  <<SubSeq(s, 1, i - 1)>> \o SplitOn(SubSeq(s, i + 1, Len(s)), sep)

\* re.sub(r'\.(pdf|htm|html|doc|docx)$', '', s3_key)
StripDocExt(key) ==
    LET n == Len(key)
    IN  IF n >= 2 /\ key[n - 1] = "." /\ key[n] \in {"pdf", "htm", "html", "doc", "docx"}
        THEN SubSeq(key, 1, n - 2) ELSE key

\* The text of a path part that names an exchange; such a part of the keys of
\* the model is one piece.
PartText(part) == IF part = <<>> THEN "" ELSE part[1]

\* parse_s3_key_metadata: the exchange (upper case) and the source id read from
\* the key; "" stands for a field the key does not give.
ParseS3KeyMetadata(s3_key) ==
    LET parts == SplitOn(StripDocExt(s3_key), "/")
        n == Len(parts)
    IN  [exchange |-> IF n >= 6 THEN Upper(PartText(parts[n - 5]))
                      ELSE IF n >= 3 THEN Upper(PartText(parts[n - 2]))
                      ELSE "",
         source_id |-> parts[n]]

\* Row metadata without an exchange.
NoMetadata == [exchange |-> ""]

\* process_pdf_bytes / process_html_bytes: merged_meta, as far as the exchange
\* and the source id go: the key's fields, overridden by the non-empty
\* metadata, then by the exchange argument, then by the document_id argument.
MergedMeta(s3_key, exchange, document_id, metadata) ==
    LET key_metadata == ParseS3KeyMetadata(s3_key)
    IN  [exchange |-> IF exchange # "" THEN exchange
                      ELSE IF metadata.exchange # "" THEN metadata.exchange
                      ELSE key_metadata.exchange,
         source_id |-> IF document_id # <<>> THEN document_id
                       ELSE key_metadata.source_id]

\* An id that is prefixed even when no exchange is known.
UniquePageIdAlwaysPrefixed(exch, doc_id, page_num) ==
    <<exch, "_", doc_id, "_pg", page_num>>

\* f"{exch}_{doc_id}_pg{page_num}" if exch else f"{doc_id}_pg{page_num}", as
\* the sequence of its pieces.
UniquePageId(exch, doc_id, page_num) ==
    IF exch # "" THEN <<exch, "_", doc_id, "_pg", page_num>>
    ELSE <<doc_id, "_pg", page_num>>

\* The page record with the exchange of merged_meta, when there is one.
WithExchange(page, exch) ==
    IF exch = "" THEN page
    ELSE [k \in (DOMAIN page) \cup {"exchange"} |->
            IF k = "exchange" THEN exch ELSE page[k]]

\* process_pdf_bytes: (page_records, error, broken_pages)
ProcessPdfBytes(doc, s3_key, exchange, document_id, metadata, enable_inline_ocr) ==
    IF doc.magic # "pdf" \/ ~doc.readable
    THEN <<(<<>>), "error", (<<>>)>>
    ELSE LET merged_meta == MergedMeta(s3_key, exchange, document_id, metadata)
             doc_id == merged_meta.source_id
             exch == merged_meta.exchange
             total == Len(doc.gibberish)
             extraction == [i \in 1..total |->
                              ExtractPageText(doc.gibberish[i], enable_inline_ocr,
                                              doc.ocr_ok)]
             pages == [i \in 1..total |->
                         WithExchange(
                           [unique_page_id |-> UniquePageId(exch, doc_id, i),
                            document_id |-> doc_id,
                            page_number |-> i,
                            total_pages |-> total,
                            text |-> extraction[i].text,
                            ocr_required |-> extraction[i].ocr_required,
                            s3_key |-> s3_key,
                            file_type |-> "pdf"], exch)]
         IN  <<pages, "None",
               PagesWhere([i \in 1..total |-> extraction[i].ocr_required], total)>>

\* process_html_bytes: one page, or an error
ProcessHtmlBytes(doc, s3_key, exchange, document_id, metadata) ==
    IF ~doc.readable
    THEN <<(<<>>), "error", (<<>>)>>
    ELSE LET merged_meta == MergedMeta(s3_key, exchange, document_id, metadata)
             doc_id == merged_meta.source_id
             exch == merged_meta.exchange
         IN  << <<WithExchange(
                    [unique_page_id |-> UniquePageId(exch, doc_id, 1),
                     document_id |-> doc_id,
                     page_number |-> 1,
                     total_pages |-> 1,
                     text |-> "text",
                     s3_key |-> s3_key,
                     file_type |-> "html"], exch)>>, "None", (<<>>) >>

\* detect_file_type_from_content: the magic bytes
DetectFileTypeFromContent(doc) ==
    IF doc.magic \in {"pdf", "html"} THEN doc.magic ELSE "unknown"

\* process_document_bytes: the type by extension, else by content; always a
\* 3-tuple (page_records, error_message_or_none, broken_pages). The last
\* argument is the module's _ENABLE_INLINE_OCR.
ProcessDocumentBytes(doc, s3_key, exchange, document_id, metadata, enable_inline_ocr) ==
    LET by_ext == GetFileType(s3_key)
        file_type == IF by_ext = "unknown" THEN DetectFileTypeFromContent(doc) ELSE by_ext
    IN  IF file_type = "pdf"
        THEN ProcessPdfBytes(doc, s3_key, exchange, document_id, metadata,
                             enable_inline_ocr)
        ELSE IF file_type = "html"
        THEN ProcessHtmlBytes(doc, s3_key, exchange, document_id, metadata)
        ELSE <<(<<>>), "error", (<<>>)>>

-----------------------------------------------------------------------------
(* The manifest reader (s3_utils.py) *)

\* A manifest row without bucket or key.
NoKey == <<>>

\* stream_manifest_range, s3_utils.py:148-170: the zero-based indices of the
\* rows it yields, in order: rows before start_row are passed over, the loop
\* breaks at end_row, a row without bucket or key is logged and not yielded.
RECURSIVE StreamedIndices(_, _, _, _)
StreamedIndices(rows, row_idx, start_row, end_row) ==
    IF row_idx >= Len(rows) THEN <<>>
    ELSE IF row_idx < start_row THEN StreamedIndices(rows, row_idx + 1, start_row, end_row)
    ELSE IF row_idx >= end_row THEN <<>>
    ELSE (IF rows[row_idx + 1] # NoKey THEN <<row_idx>> ELSE <<>>)
            \o StreamedIndices(rows, row_idx + 1, start_row, end_row)

\* stream_manifest_range: the rows it yields
StreamManifestRange(rows, start_row, end_row) ==
    LET yielded == StreamedIndices(rows, 0, start_row, end_row)
    IN  [i \in DOMAIN yielded |-> rows[yielded[i] + 1]]

\* A range that takes one row more than the chunk.
EndRowInclusive(start_row, chunk_size) == start_row + chunk_size + 1

\* main.py:99-100
StartRow(job_index, chunk_size) == job_index * chunk_size

EndRow(start_row, chunk_size) == start_row + chunk_size

-----------------------------------------------------------------------------
(* The extraction worker: process_batch (main.py) *)

ZeroStats ==
    [files_processed |-> 0, files_failed |-> 0, files_skipped |-> 0, pages_extracted |-> 0]

\* exchange = config['exchange'] or None; dedup runs only with an exchange set
DedupOn == config.enable_dedup /\ config.exchange # ""

\* record_file_error: one put into the errors table
RecordFileError(errs, s3_key, error_type, outcome) ==
    IF outcome = "ok" THEN errs \cup {<<s3_key, error_type>>} ELSE errs

\* The outcome of a table call that is made only under `cond`: any outcome when
\* the call is made, and nothing to choose when it is not.
OutcomesIf(cond) == IF cond THEN DynOutcomes ELSE {"ok"}

\* `pages, error = process_document_bytes(...)`: unpacking into two names
\* succeeds only for a 2-tuple; any other length raises ValueError.
UnpackArity == 2

\* The state of process_batch that one row changes.
RowState ==
    [stats |-> stats, all_pages |-> all_pages, processed_items |-> processed_items,
     file_errors |-> file_errors, ledger |-> ledger, escaped |-> FALSE]

\* main.py:204-211, the `except Exception` of the row loop: count the row as
\* failed and record the failure; an exception raised by a table call here
\* leaves process_batch.
RowExcept(rs, key, o3, o4) ==
    LET st1 == [rs.stats EXCEPT !.files_failed = @ + 1]
        errs1 == IF config.enable_tracking
                 THEN RecordFileError(rs.file_errors, key, "PROCESSING_ERROR", o3)
                 ELSE rs.file_errors
        led1 == IF DedupOn
                THEN RecordFailed(rs.ledger, config.exchange, SourceId(key), key, o4)
                ELSE rs.ledger
    IN  IF config.enable_tracking /\ o3 = "raise"
        THEN [rs EXCEPT !.stats = st1, !.escaped = TRUE]
        ELSE IF DedupOn /\ o4 = "raise"
        THEN [rs EXCEPT !.stats = st1, !.file_errors = errs1, !.escaped = TRUE]
        ELSE [rs EXCEPT !.stats = st1, !.file_errors = errs1, !.ledger = led1]

\* main.py:161-167, the download returned None.
RowDownloadNone(rs, key, o1, o2, o3, o4) ==
    LET st1 == [rs.stats EXCEPT !.files_failed = @ + 1]
        rs1 == [rs EXCEPT !.stats = st1]
        errs1 == IF config.enable_tracking
                 THEN RecordFileError(rs.file_errors, key, "DOWNLOAD_FAILED", o1)
                 ELSE rs.file_errors
        rs2 == [rs1 EXCEPT !.file_errors = errs1]
        led1 == IF DedupOn
                THEN RecordFailed(rs.ledger, config.exchange, SourceId(key), key, o2)
                ELSE rs.ledger
    IN  IF config.enable_tracking /\ o1 = "raise" THEN RowExcept(rs1, key, o3, o4)
        ELSE IF DedupOn /\ o2 = "raise" THEN RowExcept(rs2, key, o3, o4)
        ELSE [rs2 EXCEPT !.ledger = led1]

\* main.py:169-211, the download succeeded: `raised` says whether the engine
\* raised, `ret` is what it returned otherwise.
RowProcess(rs, key, raised, ret, o1, o3, o4) ==
    IF raised \/ Len(ret) # UnpackArity
    THEN RowExcept(rs, key, o3, o4)
    ELSE LET pages == ret[1]
             error == ret[2]
             errs1 == IF error # "None" /\ config.enable_tracking
                      THEN RecordFileError(rs.file_errors, key, "EXTRACTION_FAILED", o1)
                      ELSE rs.file_errors
             rs1 == [rs EXCEPT !.file_errors = errs1]
             st1 == [rs.stats EXCEPT !.files_processed = @ + 1,
                                     !.pages_extracted = @ + Len(pages)]
             items1 == IF DedupOn
                       THEN Append(rs.processed_items,
                                   [source_id |-> SourceId(key), s3_key |-> key,
                                    pages_extracted |-> Len(pages)])
                       ELSE rs.processed_items
         IN  IF error # "None" /\ config.enable_tracking /\ o1 = "raise"
             THEN RowExcept(rs, key, o3, o4)
             ELSE [rs1 EXCEPT !.stats = st1, !.all_pages = rs.all_pages \o pages,
                              !.processed_items = items1]


\* main.py:213-237: the accumulated pages cut into shards. A page's JSON line
\* counts its bytes plus one for the newline; a shard is closed when the next
\* line would take it past max_bytes. The bytes of json.dumps(page) grow with
\* the text of the page: an empty text, a text, and a text that alone is longer
\* than max_bytes.
JsonBytes(page) ==
    IF page.text = "" THEN 1
    ELSE IF page.text = "long" THEN MaxShardBytes + 1
    ELSE 2

\* main.py:224: if chunk and chunk_bytes + line_bytes > max_bytes
ShardIsFull(chunk, chunk_bytes, line_bytes) ==
    chunk # <<>> /\ chunk_bytes + line_bytes > MaxShardBytes

RECURSIVE ShardChunks(_, _, _, _)
ShardChunks(pages, chunk, chunk_bytes, done) ==
    IF pages = <<>> THEN (IF chunk # <<>> THEN Append(done, chunk) ELSE done)
    ELSE LET page == Head(pages)
             line_bytes == JsonBytes(page) + 1
         IN  IF ShardIsFull(chunk, chunk_bytes, line_bytes)
             THEN ShardChunks(Tail(pages), <<page>>, line_bytes, Append(done, chunk))
             ELSE ShardChunks(Tail(pages), Append(chunk, page), chunk_bytes + line_bytes, done)

\* The decimal digits of a natural number, and format(n, "0{width}d").
RECURSIVE DecDigits(_)
DecDigits(n) == IF n < 10 THEN <<n>> ELSE Append(DecDigits(n \div 10), n % 10)

ZeroPad(n, width) ==
    LET digits == DecDigits(n)
    IN  [i \in 1..(IF width > Len(digits) THEN width - Len(digits) ELSE 0) |-> 0]
            \o digits

\* main.py:214: (exchange or "unknown").lower()
ExchangePrefix(exchange) == Lower(IF exchange = "" THEN "unknown" ELSE exchange)

\* A shard key that leaves the worker's array index out.
ShardKeyWithoutIndex(exchange, job_index, part) ==
    <<"prefix", "/", ExchangePrefix(exchange), "/", "batch_">>
        \o <<"_">> \o ZeroPad(part, 3) \o <<".jsonl">>

\* main.py:225 and 235:
\* f"{output_prefix}/{exchange_prefix}/batch_{job_index:06d}_{part:03d}.jsonl",
\* as the sequence of its pieces, digit by digit.
ShardKey(exchange, job_index, part) ==
    <<"prefix", "/", ExchangePrefix(exchange), "/", "batch_">>
        \o ZeroPad(job_index, 6) \o <<"_">> \o ZeroPad(part, 3) \o <<".jsonl">>

\* main.py:226-228: a failed upload is logged and the part index moves on.
PartAfterUpload(part, uploaded) == part + 1

\* upload_jsonl of every shard in turn, part index from 0: an upload that
\* succeeds puts the object, with the lines it holds and the worker that put
\* it (history), at the key of its part.
RECURSIVE UploadShards(_, _, _, _, _, _)
UploadShards(out, chunks, ups, exchange, job_index, part) ==
    IF chunks = <<>> THEN out
    ELSE LET key == ShardKey(exchange, job_index, part)
             put == [k \in (DOMAIN out) \cup {key} |->
                       IF k = key
                       THEN [lines |-> Head(chunks),
                             writers |-> (IF key \in DOMAIN out THEN out[key].writers
                                          ELSE {}) \cup {job_index}]
                       ELSE out[k]]
         IN  UploadShards(IF Head(ups) THEN put ELSE out, Tail(chunks), Tail(ups),
                          exchange, job_index, PartAfterUpload(part, Head(ups)))

-----------------------------------------------------------------------------
(* The OCR queue publisher (ocr_queue.py) *)

MaxPageNo == 2     \* page numbers handed to the publisher go up to this
MaxBroken == 3     \* length of a broken_pages list handed to the publisher
MaxChunkEnv == 2   \* OCR_PAGE_CHUNK_SIZE is set to values in 0..MaxChunkEnv
MaxSends == 1      \* messages ever put on the OCR worker's queue
MaxBatch == 2      \* OCR_MAX_MESSAGES, the messages of one receive
MaxPageCount == 2  \* pages of a document the OCR worker opens

\* A number as Python or JSON holds it, counted in halves: 3 stands for 1.5.
Half(n) == 2 * n

\* int(x): truncation toward zero
PyInt(h) == IF h >= 0 THEN h \div 2 ELSE 0 - ((0 - h) \div 2)

RawNumbers == Half(0 - 1)..Half(MaxPageNo)

\* sorted(S) for a finite set of integers
RECURSIVE Sorted(_)
Sorted(S) ==
    IF S = {} THEN <<>>
    ELSE LET m == CHOOSE x \in S : \A y \in S : x <= y
         IN  <<m>> \o Sorted(S \ {m})

\* An integer environment variable: unset, set to something int() rejects, or
\* set to an integer.
IntEnvs ==
    {[is_set |-> FALSE, valid |-> TRUE, value |-> 0],
     [is_set |-> TRUE, valid |-> FALSE, value |-> 0]}
    \cup {[is_set |-> TRUE, valid |-> TRUE, value |-> v] : v \in 0..MaxChunkEnv}

\* _read_int_env(name, default, minimum)
ReadIntEnv(raw, default, minimum) ==
    IF ~raw.is_set THEN default
    ELSE IF ~raw.valid \/ raw.value < minimum THEN default
    ELSE raw.value

DefaultPageChunkSize == 10

\* A canonical list that keeps the values that are not positive.
CanonicalPagesUnfiltered(broken_pages) ==
    Sorted({PyInt(broken_pages[i]) : i \in DOMAIN broken_pages})

\* canonical_pages = sorted({int(page) for page in broken_pages if int(page) > 0})
CanonicalPages(broken_pages) ==
    Sorted({PyInt(broken_pages[i]) : i \in {j \in DOMAIN broken_pages :
                                             PyInt(broken_pages[j]) > 0}})

\* _chunk_pages: pages[index:index + chunk_size] for index = 0, chunk_size, ...
ChunkPages(pages, chunk_size) ==
    [k \in 1..((Len(pages) + chunk_size - 1) \div chunk_size) |->
        SubSeq(pages, (k - 1) * chunk_size + 1, Min(k * chunk_size, Len(pages)))]

\* The message body built for one chunk (ocr_queue.py:101-110).
OcrBody(exchange, source_id, s3_bucket, s3_key, pages_chunk) ==
    [fields |-> {"exchange", "source_id", "s3_bucket", "s3_key", "broken_pages"},
     exchange |-> Upper(exchange), source_id |-> source_id, s3_bucket |-> s3_bucket,
     s3_key |-> s3_key, pages_is_list |-> TRUE,
     broken_pages |-> [i \in DOMAIN pages_chunk |-> Half(pages_chunk[i])]]

\* enqueue_ocr_jobs up to the send loop: the bodies it is going to send, and
\* none when it returns zero early.
EnqueueBodies(env, exchange, source_id, s3_bucket, s3_key, broken_pages) ==
    IF broken_pages = <<>> THEN <<>>
    ELSE IF ~env.enable_ocr_queue THEN <<>>
    ELSE IF env.queue_url = "" THEN <<>>
    ELSE IF exchange = "" \/ source_id = "" \/ s3_bucket = "" \/ s3_key = "" THEN <<>>
    ELSE LET chunk_size == ReadIntEnv(env.chunk_size, DefaultPageChunkSize, 1)
             chunks == ChunkPages(CanonicalPages(broken_pages), chunk_size)
         IN  [k \in DOMAIN chunks |->
                OcrBody(exchange, source_id, s3_bucket, s3_key, chunks[k])]

\* enqueue_ocr_jobs, ocr_queue.py:62-85: which of the early returns is taken,
\* "none" when the call goes on to the send loop.
EarlyReturn(env, exchange, source_id, s3_bucket, s3_key, broken_pages) ==
    IF broken_pages = <<>> THEN "empty"
    ELSE IF ~env.enable_ocr_queue THEN "disabled"
    ELSE IF env.queue_url = "" THEN "no_url"
    ELSE IF exchange = "" \/ source_id = "" \/ s3_bucket = "" \/ s3_key = "" THEN "missing"
    ELSE "none"

\* A publisher that warns of the unset queue URL at every call.
EarlyLogEveryCall(why, warning_logged) ==
    CASE why = "disabled" -> <<[level |-> "debug", about |-> "disabled"]>>
      [] why = "no_url" -> <<[level |-> "warning", about |-> "no_url"]>>
      [] why = "missing" -> <<[level |-> "warning", about |-> "missing"]>>
      [] OTHER -> <<>>

\* enqueue_ocr_jobs, ocr_queue.py:66-85: what an early return writes to the log,
\* given the flag _missing_queue_warning_logged.
EarlyLog(why, warning_logged) ==
    CASE why = "disabled" -> <<[level |-> "debug", about |-> "disabled"]>>
      [] why = "no_url" -> IF warning_logged THEN <<>>
                           ELSE <<[level |-> "warning", about |-> "no_url"]>>
      [] why = "missing" -> <<[level |-> "warning", about |-> "missing"]>>
      [] OTHER -> <<>>

\* ocr_queue.py:117-123: the line logged when the send loop is through.
QueuedLog == <<[level |-> "info", about |-> "queued"]>>

\* The environment of a process that calls the publisher.
ProducerEnvs ==
    [enable_ocr_queue : BOOLEAN, queue_url : {"", "q"}, chunk_size : IntEnvs]

\* The calls made of the publisher: its environment and the document's
\* identity. Either everything is in place and OCR_PAGE_CHUNK_SIZE varies, or
\* one thing is missing.
ProducerCalls ==
    {c \in [env : ProducerEnvs, exchange : {"", "hkex"}, source_id : {"", "x"}] :
        \/ c.env.enable_ocr_queue /\ c.env.queue_url # "" /\ c.exchange # ""
              /\ c.source_id # ""
        \/ /\ ~c.env.chunk_size.is_set
           /\ Cardinality({n \in 1..4 :
                 <<c.env.enable_ocr_queue, c.env.queue_url # "", c.exchange # "",
                   c.source_id # "">>[n] = FALSE}) = 1}

-----------------------------------------------------------------------------
(* The OCR worker (ocr_worker.py): parsing and keys *)

RequiredFields == {"exchange", "source_id", "s3_bucket", "s3_key", "broken_pages"}

NoJob == [exchange |-> "", source_id |-> "", s3_bucket |-> "", s3_key |-> "",
          broken_pages |-> <<>>]

\* A parser that takes a body whatever its page numbers are.
ParseRaisesNotOnPages(body) ==
    \/ RequiredFields \ body.fields # {}
    \/ ~body.pages_is_list \/ body.broken_pages = <<>>
    \/ Strip(body.exchange) = "" \/ Strip(body.source_id) = ""
    \/ Strip(body.s3_bucket) = "" \/ Strip(body.s3_key) = ""

\* _parse_job: whether it raises ValueError for the body
ParseRaises(body) ==
    \/ RequiredFields \ body.fields # {}
    \/ ~body.pages_is_list \/ body.broken_pages = <<>>
    \/ CanonicalPages(body.broken_pages) = <<>>
    \/ Strip(body.exchange) = "" \/ Strip(body.source_id) = ""
    \/ Strip(body.s3_bucket) = "" \/ Strip(body.s3_key) = ""

\* _parse_job: the OcrJob it returns otherwise
ParseJob(body) ==
    [exchange |-> Upper(Strip(body.exchange)), source_id |-> Strip(body.source_id),
     s3_bucket |-> Strip(body.s3_bucket), s3_key |-> Strip(body.s3_key),
     broken_pages |-> CanonicalPages(body.broken_pages)]

\* _build_quickwit_patch_key: exchange, source id, first and last page, and the
\* digest of the joined page list (here the page list itself)
BuildQuickwitPatchKey(j) ==
    <<Lower(j.exchange), j.source_id, j.broken_pages[1],
      j.broken_pages[Len(j.broken_pages)], j.broken_pages>>

\* The key of a page's bounding-box object (ocr_worker.py:214)
BboxKey(j, page_number) == <<Lower(j.exchange), j.source_id, page_number>>

\* A worker that does not look at what the bounding-box upload returned.
BboxUploadNeverRaises(uploaded) == FALSE

\* ocr_worker.py:215-216: a bounding-box upload that returned False raises.
BboxUploadRaises(uploaded) == ~uploaded

\* _build_quickwit_record
BuildQuickwitRecord(j, page_number, total_pages) ==
    [unique_page_id |-> <<j.exchange, "_", j.source_id, "_pg", page_number>>,
     document_id |-> j.source_id, page_number |-> page_number,
     total_pages |-> total_pages, text |-> "ocr", ocr_required |-> TRUE,
     s3_key |-> j.s3_key,
     file_type |-> "pdf", exchange |-> j.exchange]

\* A page loop that skips only the page numbers below 1.
OutOfRangeBelowOnly(page_number, total_pages) == page_number < 1

\* _process_job, ocr_worker.py:200: the page is not one of the document.
OutOfRange(page_number, total_pages) == page_number < 1 \/ page_number > total_pages

\* A lookup that never finds the object.
ObjectNeverExists(objects, key) == FALSE

\* _object_exists: head_object found the key (a 404 answer gives False).
ObjectExists(objects, key) == key \in DOMAIN objects

\* A delete_message that answers without taking the message off the queue.
QueueAfterDeleteKeeps(q, id) == q

\* sqs_client.delete_message (ocr_worker.py:327) when it returns: the message
\* of the receipt handle is gone from the queue.
QueueAfterDelete(q, id) == {m \in q : m.id # id}

\* A main loop that deletes the message whether or not the job raised.
AfterJobAlwaysDelete(raised) == "delete"

\* main(), ocr_worker.py:319-340: delete_message follows _parse_job and
\* _process_job when they return; an exception skips it and is logged by the
\* handler, after which only the finally block runs.
AfterJob(raised) == IF raised THEN "finally" ELSE "delete"

\* Bodies put on the queue by other senders than the publisher.
ForeignBodies ==
    {[fields |-> RequiredFields \ {"s3_key"}, exchange |-> "HKEX", source_id |-> "x",
      s3_bucket |-> "b", s3_key |-> "", pages_is_list |-> TRUE,
      broken_pages |-> <<Half(1)>>],
     [fields |-> RequiredFields, exchange |-> " ", source_id |-> "x",
      s3_bucket |-> "b", s3_key |-> "k", pages_is_list |-> TRUE,
      broken_pages |-> <<Half(1)>>],
     [fields |-> RequiredFields, exchange |-> "hkex", source_id |-> "x",
      s3_bucket |-> "b", s3_key |-> "k", pages_is_list |-> TRUE,
      broken_pages |-> <<Half(2) + 1, Half(0)>>],
     [fields |-> RequiredFields, exchange |-> "HKEX", source_id |-> "x",
      s3_bucket |-> "b", s3_key |-> "k", pages_is_list |-> TRUE,
      broken_pages |-> <<Half(0), Half(0 - 1)>>],
     [fields |-> RequiredFields, exchange |-> "HKEX", source_id |-> "x",
      s3_bucket |-> "b", s3_key |-> "k", pages_is_list |-> FALSE,
      broken_pages |-> <<>>]}

OcrConfigs ==
    [run_once : BOOLEAN, max_messages : 1..MaxBatch,
     scale_in_protection_enabled : BOOLEAN]

\* No call of the publisher.
NoPublish ==
    [phase |-> "none",
     env |-> [enable_ocr_queue |-> FALSE, queue_url |-> "",
              chunk_size |-> [is_set |-> FALSE, valid |-> TRUE, value |-> 0]],
     exchange |-> "", source_id |-> "", broken_pages |-> <<>>,
     chunk_size |-> 0, todo |-> <<>>, sent |-> <<>>,
     log |-> <<>>, missing_queue_warning_logged |-> FALSE, send_failed |-> FALSE,
     calls |-> 0, mark |-> 0]

\* What is noted of the handling of one message: the pages OCR was run on and
\* the bounding-box keys uploaded, in order; the count _process_job keeps; what
\* became of the patch; whether an upload_json returned False, whether an
\* exception reached main's handler, whether the message was deleted; the
\* objects in the bucket when the handling began; and whether the job is the
\* one already consumed.
NoAttempt == [msg |-> 0, bbox_ok |-> {}, bbox_skipped |-> {}, patch |-> "none",
              deleted |-> FALSE, ocred |-> <<>>, uploads |-> <<>>, processed |-> 0,
              bbox_failed |-> FALSE, failed |-> FALSE, again |-> FALSE,
              bbox_before |-> {}, patch_before |-> <<>>]

NoBody == [fields |-> {}, exchange |-> "", source_id |-> "", s3_bucket |-> "",
           s3_key |-> "", pages_is_list |-> FALSE, broken_pages |-> <<>>]

\* No job consumed yet.
NoConsumed == [done |-> FALSE, republished |-> FALSE, body |-> NoBody, job |-> NoJob,
               page_count |-> 0]

\* No second OCR worker has the job.
NoPeer == [pc |-> "idle", key |-> <<>>, records |-> <<>>, overwrote |-> FALSE]

\* No manifest was split: no chunk object, no job submitted.
NoChunks == [objects |-> <<>>, submitted |-> FALSE, env |-> {}]

\* No call of the protection API yet: none failed (returned False or raised),
\* none was made after a failed one, no exception of a call left main().
NoProtectionCalls == [failed |-> FALSE, after_failure |-> FALSE, escaped |-> FALSE]

\* The log after one more call of the protection API with the given outcome.
ProtectionCalled(log, prot) ==
    IF prot = "off" THEN log
    ELSE [log EXCEPT !.failed = @ \/ prot \in {"failed", "raise"},
                     !.after_failure = @ \/ log.failed]

\* The OCR side before its worker has started, with an empty queue.
\* No page is in the extraction engine's hands.
NoPage == [fn |-> "none"]

OcrAtStart ==
    /\ queue = {}
    /\ sent_total = 0
    /\ ocr_pc = "start"
    /\ messages = <<>>
    /\ scale_in_protection_enabled = FALSE
    /\ task_protected = FALSE
    /\ job = NoJob
    /\ page_count = 0
    /\ page_idx = 0
    /\ quickwit_records = <<>>
    /\ bbox_objects = {}
    /\ patch_objects = <<>>
    /\ ecs_protected = FALSE
    /\ publish = NoPublish
    /\ attempt = NoAttempt
    /\ consumed = NoConsumed
    /\ protection_log = NoProtectionCalls
    /\ chunk_store = NoChunks
    /\ peer = NoPeer

OcrIdle ==
    /\ OcrAtStart
    /\ engine_page = NoPage

-----------------------------------------------------------------------------
(* The extraction worker's state machine *)

Configs ==
    [job_index : 0..MaxJobIndex, chunk_size : {ChunkSize}, exchange : {"", "HKEX"},
     enable_tracking : BOOLEAN, enable_dedup : BOOLEAN, required_env : BOOLEAN,
     enable_inline_ocr : {InlineOcrDefault}]

NoRet == <<>>

\* No row handled yet.
NoRow ==
    [key |-> <<>>, path |-> "none", downloaded |-> FALSE, raised |-> FALSE,
     ret |-> NoRet, d_processed |-> 0, d_failed |-> 0, d_skipped |-> 0,
     d_pages |-> 0, d_all_pages |-> 0]

NoJobEntry == [status |-> "NONE", error_message |-> FALSE]

NoPrevRun == [ran |-> FALSE, clean |-> FALSE]

EmptyLedger == [k \in Pks \X SourceIds |-> NoEntry]

\* The per-process state of a fresh worker process.
FreshRun ==
    /\ pc = "boot"
    /\ manifest_rows = <<>>
    /\ already_processed = {}
    /\ idx = 0
    /\ stats = ZeroStats
    /\ all_pages = <<>>
    /\ processed_items = <<>>
    /\ exit_code = "none"
    /\ file_errors = {}
    /\ job_entry = NoJobEntry
    /\ lastRow = NoRow
    /\ completeCalls = <<>>
    /\ fetch_failed = FALSE
    /\ faults = FALSE

Init ==
    /\ config \in Configs
    /\ manifest \in SeqsUpTo(Keys, MaxRows)
    /\ FreshRun
    /\ ledger = EmptyLedger
    /\ failedAtStart = {}
    /\ output = <<>>
    /\ prevRun = NoPrevRun
    /\ ocr_config = [run_once |-> TRUE, max_messages |-> 1,
                     scale_in_protection_enabled |-> FALSE]
    /\ OcrIdle

\* main(): validate_config, then record_job_start when tracking is on.
MainStart ==
    /\ pc = "boot"
    /\ \E o \in OutcomesIf(config.required_env /\ config.enable_tracking) :
         /\ IF ~config.required_env \/ o = "raise"
            THEN pc' = "exited" /\ exit_code' = "nonzero"
            ELSE pc' = "fetch" /\ exit_code' = exit_code
         /\ job_entry' = IF config.required_env /\ config.enable_tracking /\ o = "ok"
                         THEN [status |-> "RUNNING", error_message |-> FALSE]
                         ELSE job_entry
         /\ faults' = (faults \/ o # "ok")
    /\ UNCHANGED <<config, manifest, manifest_rows, already_processed, idx, stats,
                   all_pages, processed_items, ledger, file_errors, output, lastRow,
                   completeCalls, fetch_failed, failedAtStart, prevRun, ocrVars>>

\* process_batch, main.py:98-138: pull the rows of [J*C, (J+1)*C); a failure to
\* read the manifest is logged and the (zero) stats are returned.
FetchManifest ==
    /\ pc = "fetch"
    /\ \E ok \in BOOLEAN :
         LET start_row == StartRow(config.job_index, config.chunk_size)
             end_row == EndRow(start_row, config.chunk_size)
         IN  IF ok
             THEN /\ manifest_rows' = StreamManifestRange(manifest, start_row, end_row)
                  /\ pc' = "dedup"
                  /\ UNCHANGED <<fetch_failed, faults>>
             ELSE /\ manifest_rows' = manifest_rows
                  /\ pc' = "returned"
                  /\ fetch_failed' = TRUE
                  /\ faults' = TRUE
    /\ failedAtStart' =
         {sid \in SourceIds :
            \E e \in Exchanges :
               /\ e = config.exchange
               /\ ledger[<<MakePk(e, "extraction"), sid>>].status = "FAILED"}
    /\ UNCHANGED <<config, manifest, already_processed, idx, stats, all_pages,
                   processed_items, exit_code, ledger, file_errors, job_entry, output,
                   lastRow, completeCalls, prevRun, ocrVars>>

\* all_source_ids = [Path(key).stem.rstrip('.') for _, key, _ in manifest_rows]
AllSourceIds(rows) == [i \in DOMAIN rows |-> SourceId(rows[i])]

\* process_batch, main.py:140-146: the dedup pre-check gives the skip-set.
DedupCheck ==
    /\ pc = "dedup"
    /\ IF DedupOn
       THEN LET ids == AllSourceIds(manifest_rows)
                nb == NumBatches(Len(ids), BatchGetLimit)
            IN  \E calls \in [1..nb -> BatchCalls(Range(ids))] :
                  /\ IF BatchRaises(ids, BatchGetLimit, calls)
                     THEN pc' = "escaped" /\ already_processed' = already_processed
                     ELSE /\ pc' = "rows"
                          /\ already_processed' =
                               BatchCheckProcessed(ledger, config.exchange, ids, 1, calls, {})
                  /\ faults' = (faults \/ \E b \in 1..nb :
                                   \/ calls[b].first # "ok"
                                   \/ calls[b].done1 # Range(ids))
       ELSE pc' = "rows" /\ already_processed' = {} /\ faults' = faults
    /\ UNCHANGED <<config, manifest, manifest_rows, idx, stats, all_pages,
                   processed_items, exit_code, ledger, file_errors, job_entry, output,
                   lastRow, completeCalls, fetch_failed, failedAtStart, prevRun, ocrVars>>

\* The row the loop is at.
CurKey == manifest_rows[idx + 1]

\* A row for which everything went well outside the worker: the object was
\* downloaded and the engine returned page records and no error.
RowFine(downloaded, raised, ret) ==
    /\ downloaded /\ ~raised
    /\ ret[2] = "None" /\ ret[1] # <<>>

\* What one row did to process_batch, and what is noted of it.
ApplyRow(rs, path, downloaded, raised, ret, fault) ==
    /\ stats' = rs.stats
    /\ all_pages' = rs.all_pages
    /\ processed_items' = rs.processed_items
    /\ file_errors' = rs.file_errors
    /\ ledger' = rs.ledger
    /\ idx' = idx + 1
    /\ pc' = IF rs.escaped THEN "escaped" ELSE "rows"
    /\ faults' = (faults \/ fault)
    /\ lastRow' = [key |-> CurKey, path |-> path, downloaded |-> downloaded,
                    raised |-> raised, ret |-> ret,
                    d_processed |-> rs.stats.files_processed - stats.files_processed,
                    d_failed |-> rs.stats.files_failed - stats.files_failed,
                    d_skipped |-> rs.stats.files_skipped - stats.files_skipped,
                    d_pages |-> rs.stats.pages_extracted - stats.pages_extracted,
                    d_all_pages |-> Len(rs.all_pages) - Len(all_pages)]
    /\ UNCHANGED <<config, manifest, manifest_rows, already_processed, exit_code,
                   job_entry, output, completeCalls, fetch_failed, failedAtStart,
                   prevRun, ocrVars>>


\* A skip that also notes the filing for the ledger.
RowSkippedAndNoted(rs, key) ==
    [rs EXCEPT !.stats.files_skipped = @ + 1,
               !.processed_items = Append(@, [source_id |-> SourceId(key), s3_key |-> key,
                                              pages_extracted |-> 0])]

\* main.py:155-157: the skip counts the row and goes to the next one.
RowSkipped(rs, key) == [rs EXCEPT !.stats.files_skipped = @ + 1]

\* main.py:154-157: the row's source id is in the skip-set.
RowSkip ==
    /\ pc = "rows" /\ idx < Len(manifest_rows)
    /\ SourceId(CurKey) \in already_processed
    /\ ApplyRow(RowSkipped(RowState, CurKey), "skip", FALSE, FALSE, NoRet, FALSE)

\* main.py:159-167: download_pdf_bytes returned None.
RowDownloadFailed ==
    /\ pc = "rows" /\ idx < Len(manifest_rows)
    /\ SourceId(CurKey) \notin already_processed
    /\ \E o1 \in OutcomesIf(config.enable_tracking) :
       \E o2 \in OutcomesIf(DedupOn /\ o1 # "raise") :
       \E o3 \in OutcomesIf(config.enable_tracking /\ "raise" \in {o1, o2}) :
       \E o4 \in OutcomesIf(DedupOn /\ "raise" \in {o1, o2} /\ o3 # "raise") :
         ApplyRow(RowDownloadNone(RowState, CurKey, o1, o2, o3, o4),
                  "download_failed", FALSE, FALSE, NoRet, TRUE)

\* main.py:169-211: the document was downloaded and handed to the engine.
RowExtract ==
    /\ pc = "rows" /\ idx < Len(manifest_rows)
    /\ SourceId(CurKey) \notin already_processed
    /\ \E doc \in DocBytes, raised \in BOOLEAN :
         LET ret == IF raised THEN NoRet
                    ELSE ProcessDocumentBytes(doc, CurKey, config.exchange,
                                              SourceId(CurKey), NoMetadata,
                                              config.enable_inline_ocr)
             unpacked == ~raised /\ Len(ret) = UnpackArity
             err_put == unpacked /\ ret[2] # "None" /\ config.enable_tracking
         IN  \E o1 \in OutcomesIf(err_put) :
             \E o3 \in OutcomesIf(config.enable_tracking /\ (~unpacked \/ o1 = "raise")) :
             \E o4 \in OutcomesIf(DedupOn /\ (~unpacked \/ o1 = "raise") /\ o3 # "raise") :
               ApplyRow(RowProcess(RowState, CurKey, raised, ret, o1, o3, o4),
                        "extract", TRUE, raised, ret,
                        ~RowFine(TRUE, raised, ret) \/ {o1, o3, o4} # {"ok"})


\* process_batch, main.py:213-246: upload the shards, then record the processed
\* filings in the ledger, then return the stats.
FinishBatch ==
    /\ pc = "rows" /\ idx = Len(manifest_rows)
    /\ LET chunks == IF all_pages # <<>> THEN ShardChunks(all_pages, <<>>, 0, <<>>)
                     ELSE <<>>
           record == DedupOn /\ processed_items # <<>>
           nb == IF record THEN NumBatches(Len(processed_items), BatchWriteLimit) ELSE 0
       IN  \E ups \in [1..Len(chunks) -> BOOLEAN] :
           \E calls \in [1..nb -> BatchCalls(Range(processed_items))] :
             /\ output' = UploadShards(output, chunks, ups, config.exchange,
                                       config.job_index, 0)
             /\ ledger' = IF record
                          THEN BatchRecordProcessed(ledger, config.exchange,
                                                    processed_items, 1, calls)
                          ELSE ledger
             /\ pc' = IF record /\ BatchRaises(processed_items, BatchWriteLimit, calls)
                      THEN "escaped" ELSE "returned"
             /\ faults' = (faults \/ FALSE \in Range(ups) \/ \E b \in 1..nb :
                              \/ calls[b].first # "ok"
                              \/ calls[b].done1 # Range(processed_items))
    /\ UNCHANGED <<config, manifest, manifest_rows, already_processed, idx, stats,
                   all_pages, processed_items, exit_code, file_errors, job_entry,
                   lastRow, completeCalls, fetch_failed, failedAtStart, prevRun, ocrVars>>

\* record_job_complete: one update of the job's entry
RecordJobComplete(entry, status, error_message, outcome) ==
    IF outcome = "ok"
    THEN [status |-> status, error_message |-> (error_message \/ entry.error_message)]
    ELSE entry

\* main.py:279 and 284
AllFilesFailed(st) == st.files_failed > 0 /\ st.files_processed = 0

\* An exit that forgets the all-files-failed case.
ExitStatusOnExceptionOnly(failed, raised) == IF raised THEN "nonzero" ELSE "zero"

\* main.py:284-294: sys.exit(1) when all files failed or an exception was
\* caught, a normal return (status 0) otherwise.
ExitStatus(failed, raised) == IF failed \/ raised THEN "nonzero" ELSE "zero"

\* main(), main.py:276-294 after process_batch returned: record the terminal
\* state and exit; an exception raised by the write lands in main's handler.
MainComplete ==
    /\ pc = "returned"
    /\ LET failed == AllFilesFailed(stats)
           status == IF failed THEN "FAILED" ELSE "SUCCEEDED"
       IN  \E o \in OutcomesIf(config.enable_tracking) :
           \E o2 \in OutcomesIf(config.enable_tracking /\ o = "raise") :
             LET entry1 == IF config.enable_tracking
                           THEN RecordJobComplete(job_entry, status, failed, o)
                           ELSE job_entry
                 call1 == [status |-> status, error_message |-> failed,
                           site |-> "stats"]
                 call2 == [status |-> "FAILED", error_message |-> TRUE,
                           site |-> "except"]
             IN  /\ job_entry' = IF o = "raise"
                                 THEN RecordJobComplete(entry1, "FAILED", TRUE, o2)
                                 ELSE entry1
                 /\ completeCalls' = IF ~config.enable_tracking THEN completeCalls
                                     ELSE IF o = "raise" THEN completeCalls \o <<call1, call2>>
                                     ELSE Append(completeCalls, call1)
                 /\ exit_code' = ExitStatus(failed, o = "raise")
                 /\ faults' = (faults \/ o # "ok")
    /\ pc' = "exited"
    /\ UNCHANGED <<config, manifest, manifest_rows, already_processed, idx, stats,
                   all_pages, processed_items, ledger, file_errors, output, lastRow,
                   fetch_failed, failedAtStart, prevRun, ocrVars>>

\* main(), main.py:290-294: an exception left process_batch.
MainExcept ==
    /\ pc = "escaped"
    /\ \E o2 \in OutcomesIf(config.enable_tracking) :
         /\ job_entry' = IF config.enable_tracking
                         THEN RecordJobComplete(job_entry, "FAILED", TRUE, o2)
                         ELSE job_entry
         /\ completeCalls' = IF config.enable_tracking
                             THEN Append(completeCalls,
                                         [status |-> "FAILED", error_message |-> TRUE,
                                          site |-> "except"])
                             ELSE completeCalls
    /\ exit_code' = ExitStatus(FALSE, TRUE)
    /\ pc' = "exited"
    /\ UNCHANGED <<config, manifest, manifest_rows, already_processed, idx, stats,
                   all_pages, processed_items, ledger, file_errors, output, lastRow,
                   fetch_failed, faults, failedAtStart, prevRun, ocrVars>>

\* A run with dedup on that handled every row of a non-empty slice, in which
\* no store call failed and every row was fine.
CleanRun ==
    /\ DedupOn /\ ~faults /\ manifest_rows # <<>>
    /\ idx = Len(manifest_rows)

\* The scheduler runs the worker again on the same manifest slice, as a new
\* process with a new job id.
Rerun ==
    /\ pc = "exited"
    /\ prevRun' = [ran |-> TRUE, clean |-> CleanRun]
    /\ pc' = "boot"
    /\ manifest_rows' = <<>>
    /\ already_processed' = {}
    /\ idx' = 0
    /\ stats' = ZeroStats
    /\ all_pages' = <<>>
    /\ processed_items' = <<>>
    /\ exit_code' = "none"
    /\ file_errors' = {}
    /\ job_entry' = NoJobEntry
    /\ lastRow' = NoRow
    /\ completeCalls' = <<>>
    /\ fetch_failed' = FALSE
    /\ faults' = FALSE
    /\ UNCHANGED <<config, manifest, ledger, output, failedAtStart, ocrVars>>

\* scripts/backfill_dedup.py: items of a manifest, one per row.
BackfillItems(rows) ==
    [i \in DOMAIN rows |-> [source_id |-> SourceId(rows[i]), s3_key |-> rows[i]]]

\* scripts/backfill_dedup.py, backfill(): mark the manifest's source ids
\* COMPLETED under the given exchange, in batches of 25 puts with one retry.
\* The operator runs the script while no worker process is running.
Backfill(exchange) ==
    /\ pc = "boot"
    /\ LET items == BackfillItems(manifest)
           nb == NumBatches(Len(items), BatchWriteLimit)
       IN  \E calls \in [1..nb -> BatchCalls(Range(items))] :
             ledger' = BatchRecordProcessed(ledger, exchange, items, 1, calls)
    /\ ledger' # ledger
    /\ UNCHANGED <<config, manifest, pc, manifest_rows, already_processed, idx, stats,
                   all_pages, processed_items, exit_code, file_errors, job_entry,
                   output, lastRow, completeCalls, fetch_failed, faults, failedAtStart,
                   prevRun, ocrVars>>

Next ==
    \/ MainStart
    \/ FetchManifest
    \/ DedupCheck
    \/ RowSkip
    \/ RowDownloadFailed
    \/ RowExtract
    \/ FinishBatch
    \/ MainComplete
    \/ MainExcept
    \/ Rerun
    \/ \E e \in Exchanges : Backfill(e)

Spec == Init /\ [][Next]_vars

-----------------------------------------------------------------------------
(* The OCR queue and the OCR worker's state machine *)

\* The extraction worker and its stores, not deployed.
WorkerIdle ==
    /\ config = [job_index |-> 0, chunk_size |-> ChunkSize, exchange |-> "",
                 enable_tracking |-> FALSE, enable_dedup |-> FALSE,
                 required_env |-> FALSE, enable_inline_ocr |-> InlineOcrDefault]
    /\ manifest = <<>>
    /\ FreshRun
    /\ ledger = EmptyLedger
    /\ failedAtStart = {}
    /\ output = <<>>
    /\ prevRun = NoPrevRun

\* The publisher alone: processes call enqueue_ocr_jobs, nothing consumes.
InitEnqueue ==
    /\ WorkerIdle
    /\ ocr_config = [run_once |-> TRUE, max_messages |-> 1,
                     scale_in_protection_enabled |-> FALSE]
    /\ queue = {}
    /\ sent_total = 0
    /\ ocr_pc = "start"
    /\ messages = <<>>
    /\ scale_in_protection_enabled = FALSE
    /\ task_protected = FALSE
    /\ job = NoJob
    /\ page_count = 0
    /\ page_idx = 0
    /\ quickwit_records = <<>>
    /\ bbox_objects = {}
    /\ patch_objects = <<>>
    /\ ecs_protected = FALSE
    /\ attempt = NoAttempt
    /\ consumed = NoConsumed
    /\ protection_log = NoProtectionCalls
    /\ chunk_store = NoChunks
    /\ peer = NoPeer
    /\ engine_page = NoPage
    /\ \E c \in ProducerCalls, broken_pages \in SeqsUpTo(RawNumbers, MaxBroken) :
         publish = [NoPublish EXCEPT !.phase = "called", !.env = c.env,
                                     !.exchange = c.exchange,
                                     !.source_id = c.source_id,
                                     !.broken_pages = broken_pages,
                                     !.calls = 1]

InitOcr ==
    /\ WorkerIdle
    /\ ocr_config \in OcrConfigs
    /\ OcrIdle

\* enqueue_ocr_jobs, ocr_queue.py:60-99: the early returns, the chunk size, the
\* canonical pages and the bodies to send.
EnqueueOcrJobs ==
    /\ publish.phase = "called"
    /\ LET bodies == EnqueueBodies(publish.env, publish.exchange, publish.source_id,
                                   "b", "k", publish.broken_pages)
           why == EarlyReturn(publish.env, publish.exchange, publish.source_id,
                              "b", "k", publish.broken_pages)
       IN  publish' = [publish EXCEPT
                         !.phase = IF bodies = <<>> THEN "returned" ELSE "sending",
                         !.chunk_size = ReadIntEnv(publish.env.chunk_size,
                                                   DefaultPageChunkSize, 1),
                         !.todo = bodies,
                         !.log = @ \o EarlyLog(why, publish.missing_queue_warning_logged)
                                   \o (IF why = "none" /\ bodies = <<>>
                                       THEN QueuedLog ELSE <<>>),
                         !.missing_queue_warning_logged = @ \/ why = "no_url"]
    /\ UNCHANGED <<workerVars, peer, chunk_store, engine_page, protection_log, ocr_config, queue, sent_total, ocr_pc, messages,
                   scale_in_protection_enabled, task_protected, job, page_count,
                   page_idx, quickwit_records, bbox_objects, patch_objects,
                   ecs_protected, attempt, consumed>>

\* enqueue_ocr_jobs, ocr_queue.py:100-124: one round of the send loop; a send
\* that raises ends the call with the earlier messages on the queue.
EnqueueSend ==
    /\ publish.phase = "sending"
    /\ \E ok \in BOOLEAN :
         IF ok
         THEN /\ queue' = queue \cup {[id |-> sent_total + 1, body |-> Head(publish.todo),
                                       inflight |-> FALSE]}
              /\ sent_total' = sent_total + 1
              /\ publish' = [publish EXCEPT
                                !.sent = Append(@, Head(publish.todo)),
                                !.todo = Tail(@),
                                !.phase = IF Tail(publish.todo) = <<>>
                                          THEN "returned" ELSE "sending",
                                !.log = IF Tail(publish.todo) = <<>>
                                        THEN @ \o QueuedLog ELSE @]
         ELSE /\ publish' = [publish EXCEPT !.phase = "raised", !.send_failed = TRUE]
              /\ UNCHANGED <<queue, sent_total>>
    /\ UNCHANGED <<workerVars, peer, chunk_store, engine_page, protection_log, ocr_config, ocr_pc, messages,
                   scale_in_protection_enabled, task_protected, job, page_count,
                   page_idx, quickwit_records, bbox_objects, patch_objects,
                   ecs_protected, attempt, consumed>>

\* Every body the publisher can put on the queue.
PublishedBodies ==
    UNION {Range(EnqueueBodies(c.env, c.exchange, c.source_id, "b", "k", broken_pages)) :
             c \in ProducerCalls, broken_pages \in SeqsUpTo(RawNumbers, MaxBroken)}

\* A sender puts a body on the queue: the publisher, or another sender.
SendMessage ==
    /\ sent_total < MaxSends
    /\ \E body \in PublishedBodies \cup ForeignBodies :
         queue' = queue \cup {[id |-> sent_total + 1, body |-> body, inflight |-> FALSE]}
    /\ sent_total' = sent_total + 1
    /\ UNCHANGED <<workerVars, peer, chunk_store, engine_page, protection_log, ocr_config, ocr_pc, messages,
                   scale_in_protection_enabled, task_protected, job, page_count,
                   page_idx, quickwit_records, bbox_objects, patch_objects,
                   ecs_protected, publish, attempt, consumed>>

\* The visibility timeout of an in-flight message runs out.
Redeliver ==
    /\ \E m \in queue :
         /\ m.inflight
         /\ queue' = (queue \ {m}) \cup {[m EXCEPT !.inflight = FALSE]}
    /\ UNCHANGED <<workerVars, peer, chunk_store, engine_page, protection_log, ocr_config, sent_total, ocr_pc, messages,
                   scale_in_protection_enabled, task_protected, job, page_count,
                   page_idx, quickwit_records, bbox_objects, patch_objects,
                   ecs_protected, publish, attempt, consumed>>

\* The job consumed first is published once more: the same body is sent again
\* as a new message.
Republish ==
    /\ consumed.done /\ ~consumed.republished
    /\ queue' = queue \cup {[id |-> sent_total + 1, body |-> consumed.body,
                              inflight |-> FALSE]}
    /\ sent_total' = sent_total + 1
    /\ consumed' = [consumed EXCEPT !.republished = TRUE]
    /\ UNCHANGED <<workerVars, peer, chunk_store, engine_page, protection_log, ocr_config, ocr_pc, messages,
                   scale_in_protection_enabled, task_protected, job, page_count,
                   page_idx, quickwit_records, bbox_objects, patch_objects,
                   ecs_protected, publish, attempt>>

\* main(), ocr_worker.py:239-283: read the environment, discover the task
\* identity; without an identity the protection feature is off.
OcrMainStart ==
    /\ ocr_pc = "start"
    /\ \E identity \in BOOLEAN :
         scale_in_protection_enabled' =
            (ocr_config.scale_in_protection_enabled /\ identity)
    /\ ocr_pc' = "poll"
    /\ UNCHANGED <<workerVars, peer, chunk_store, engine_page, protection_log, ocr_config, queue, sent_total, messages,
                   task_protected, job, page_count, page_idx, quickwit_records,
                   bbox_objects, patch_objects, ecs_protected, publish, attempt, consumed>>

\* A loop that receives again whatever run_once says.
AfterBatchReceiveAgain(run_once) == "poll"

\* main(), ocr_worker.py:292-296 and 352-354: with run_once the worker returns
\* after the batch, or after an empty receive; otherwise it receives again.
AfterBatch(run_once) == IF run_once THEN "done" ELSE "poll"

\* The batches a receive can return: up to n distinct visible messages.
Batches(ids, n) ==
    {b \in SeqsUpTo(ids, n) : \A i, j \in DOMAIN b : i # j => b[i] # b[j]}

\* main(), ocr_worker.py:285-297: one receive cycle.
OcrReceive ==
    /\ ocr_pc = "poll"
    /\ \E raised \in BOOLEAN :
         IF raised
         THEN ocr_pc' = "crashed" /\ UNCHANGED <<queue, messages>>
         ELSE \E b \in Batches({m.id : m \in {v \in queue : ~v.inflight}},
                               ocr_config.max_messages) :
                /\ queue' = {IF m.id \in Range(b) THEN [m EXCEPT !.inflight = TRUE]
                             ELSE m : m \in queue}
                /\ messages' = [i \in DOMAIN b |->
                                  [id |-> b[i],
                                   body |-> (CHOOSE m \in queue : m.id = b[i]).body]]
                /\ ocr_pc' = IF b # <<>> THEN "msg"
                             ELSE AfterBatch(ocr_config.run_once)
    /\ UNCHANGED <<workerVars, peer, chunk_store, engine_page, protection_log, ocr_config, sent_total, scale_in_protection_enabled,
                   task_protected, job, page_count, page_idx, quickwit_records,
                   bbox_objects, patch_objects, ecs_protected, publish, attempt, consumed>>

\* main(), ocr_worker.py:299-320: take the next message of the batch, enable
\* the protection when the feature is on, parse the body.
OcrBeginMessage ==
    /\ ocr_pc = "msg"
    /\ LET m == Head(messages)
       IN  \E prot \in (IF scale_in_protection_enabled
                        THEN {"ok", "failed", "raise"} ELSE {"off"}) :
             LET raised == prot = "raise" \/ ParseRaises(m.body)
             IN  /\ task_protected' = (prot = "ok")
                 /\ ecs_protected' = (ecs_protected \/ prot = "ok")
                 /\ protection_log' = ProtectionCalled(protection_log, prot)
                 /\ scale_in_protection_enabled' =
                       (scale_in_protection_enabled /\ prot # "failed")
                 /\ ocr_pc' = IF raised THEN AfterJob(TRUE) ELSE "download"
                 /\ job' = IF raised THEN NoJob ELSE ParseJob(m.body)
                 /\ attempt' = [NoAttempt EXCEPT
                                  !.msg = m.id,
                                  !.failed = raised,
                                  !.again = /\ ~raised /\ consumed.done
                                            /\ ParseJob(m.body) = consumed.job,
                                  !.bbox_before = bbox_objects,
                                  !.patch_before = patch_objects]
    /\ UNCHANGED <<workerVars, peer, chunk_store, engine_page, ocr_config, queue, sent_total, messages, page_count,
                   page_idx, quickwit_records, bbox_objects, patch_objects,
                   publish, consumed>>

\* _process_job, ocr_worker.py:190-197: download the source and open it.
OcrDownload ==
    /\ ocr_pc = "download"
    /\ \E ok \in BOOLEAN, n \in 0..MaxPageCount :
         IF ok
         THEN /\ page_count' = n
              /\ page_idx' = 1
              /\ quickwit_records' = <<>>
              /\ ocr_pc' = "pages"
              /\ attempt' = attempt
         ELSE /\ ocr_pc' = AfterJob(TRUE)
              /\ attempt' = [attempt EXCEPT !.failed = TRUE]
              /\ UNCHANGED <<page_count, page_idx, quickwit_records>>
    /\ UNCHANGED <<workerVars, peer, chunk_store, engine_page, protection_log, ocr_config, queue, sent_total, messages,
                   scale_in_protection_enabled, task_protected, job, bbox_objects,
                   patch_objects, ecs_protected, publish, consumed>>

\* _process_job, ocr_worker.py:199-225: one page of job.broken_pages.
OcrPage ==
    /\ ocr_pc = "pages" /\ page_idx <= Len(job.broken_pages)
    /\ LET page_number == job.broken_pages[page_idx]
       IN  IF OutOfRange(page_number, page_count)
           THEN /\ page_idx' = page_idx + 1
                /\ attempt' = [attempt EXCEPT !.bbox_skipped = @ \cup {page_number}]
                /\ UNCHANGED <<ocr_pc, quickwit_records, bbox_objects>>
           ELSE \E ocr_ok \in BOOLEAN, uploaded \in BOOLEAN :
                  LET att1 == [attempt EXCEPT !.ocred = Append(@, page_number)]
                      att2 == IF ~ocr_ok THEN att1
                              ELSE IF uploaded
                              THEN [att1 EXCEPT
                                      !.uploads = Append(@, BboxKey(job, page_number)),
                                      !.bbox_ok = @ \cup {page_number}]
                              ELSE [att1 EXCEPT !.bbox_failed = TRUE]
                  IN  IF ocr_ok /\ ~BboxUploadRaises(uploaded)
                      THEN /\ bbox_objects' =
                                IF uploaded
                                THEN bbox_objects \cup {BboxKey(job, page_number)}
                                ELSE bbox_objects
                           /\ quickwit_records' =
                                Append(quickwit_records,
                                       BuildQuickwitRecord(job, page_number, page_count))
                           /\ page_idx' = page_idx + 1
                           /\ attempt' = [att2 EXCEPT !.processed = @ + 1]
                           /\ ocr_pc' = ocr_pc
                      ELSE /\ ocr_pc' = AfterJob(TRUE)
                           /\ attempt' = [att2 EXCEPT !.failed = TRUE]
                           /\ UNCHANGED <<page_idx, quickwit_records, bbox_objects>>
    /\ UNCHANGED <<workerVars, peer, chunk_store, engine_page, protection_log, ocr_config, queue, sent_total, messages,
                   scale_in_protection_enabled, task_protected, job, page_count,
                   patch_objects, ecs_protected, publish, consumed>>

\* The job in hand noted as the first one consumed, when none was before.
FirstSuccess ==
    IF consumed.done THEN consumed
    ELSE [done |-> TRUE, republished |-> FALSE, body |-> Head(messages).body,
          job |-> job, page_count |-> page_count]

\* _process_job, ocr_worker.py:227-234: the patch object, unless it exists or
\* there is no record.
OcrPatch ==
    /\ ocr_pc = "pages" /\ page_idx > Len(job.broken_pages)
    /\ LET patch_key == BuildQuickwitPatchKey(job)
       IN  IF quickwit_records = <<>>
           THEN /\ ocr_pc' = AfterJob(FALSE)
                /\ UNCHANGED <<patch_objects, attempt, consumed>>
           ELSE \E head \in {"ok", "raise"}, uploaded \in BOOLEAN :
                  IF head = "raise"
                  THEN /\ ocr_pc' = AfterJob(TRUE)
                       /\ attempt' = [attempt EXCEPT !.failed = TRUE]
                       /\ UNCHANGED <<patch_objects, consumed>>
                  ELSE IF ObjectExists(patch_objects, patch_key)
                  THEN /\ ocr_pc' = AfterJob(FALSE)
                       /\ attempt' = [attempt EXCEPT !.patch = "exists"]
                       /\ consumed' = FirstSuccess
                       /\ UNCHANGED patch_objects
                  ELSE IF uploaded
                  THEN /\ patch_objects' =
                            [k \in (DOMAIN patch_objects) \cup {patch_key} |->
                               IF k = patch_key THEN quickwit_records
                               ELSE patch_objects[k]]
                       /\ attempt' = [attempt EXCEPT !.patch = "uploaded"]
                       /\ consumed' = FirstSuccess
                       /\ ocr_pc' = AfterJob(FALSE)
                  ELSE /\ ocr_pc' = AfterJob(TRUE)
                       /\ attempt' = [attempt EXCEPT !.patch = "failed", !.failed = TRUE]
                       /\ UNCHANGED <<patch_objects, consumed>>
    /\ UNCHANGED <<workerVars, peer, chunk_store, engine_page, protection_log, ocr_config, queue, sent_total, messages,
                   scale_in_protection_enabled, task_protected, job, page_count,
                   page_idx, quickwit_records, bbox_objects, ecs_protected,
                   publish>>

\* main(), ocr_worker.py:327: delete the message; a delete that raises leaves it
\* and is caught by the handler.
OcrDelete ==
    /\ ocr_pc = "delete"
    /\ \E ok \in BOOLEAN :
         IF ok
         THEN /\ queue' = QueueAfterDelete(queue, Head(messages).id)
              /\ attempt' = [attempt EXCEPT !.deleted = TRUE]
         ELSE /\ attempt' = [attempt EXCEPT !.failed = TRUE]
              /\ UNCHANGED queue
    /\ ocr_pc' = "finally"
    /\ UNCHANGED <<workerVars, peer, chunk_store, engine_page, protection_log, ocr_config, sent_total, messages,
                   scale_in_protection_enabled, task_protected, job, page_count,
                   page_idx, quickwit_records, bbox_objects, patch_objects,
                   ecs_protected, publish, consumed>>

\* main(), ocr_worker.py:341-354: the finally block, then the next message of
\* the batch or the next receive cycle.
OcrFinally ==
    /\ ocr_pc = "finally"
    /\ \E prot \in (IF task_protected THEN {"ok", "failed", "raise"} ELSE {"off"}) :
         /\ ecs_protected' = (ecs_protected /\ prot # "ok")
         /\ protection_log' = [ProtectionCalled(protection_log, prot) EXCEPT
                                  !.escaped = @ \/ prot = "raise"]
         /\ scale_in_protection_enabled' =
               (scale_in_protection_enabled /\ prot # "failed")
         /\ ocr_pc' = IF prot = "raise" THEN "crashed"
                      ELSE IF Tail(messages) # <<>> THEN "msg"
                      ELSE AfterBatch(ocr_config.run_once)
    /\ messages' = Tail(messages)
    /\ task_protected' = FALSE
    /\ UNCHANGED <<workerVars, peer, chunk_store, engine_page, ocr_config, queue, sent_total, job, page_count,
                   page_idx, quickwit_records, bbox_objects, patch_objects,
                   publish, attempt, consumed>>

NextEnqueue ==
    \/ EnqueueOcrJobs
    \/ EnqueueSend

SpecEnqueue == InitEnqueue /\ [][NextEnqueue]_vars

NextOcr ==
    \/ SendMessage
    \/ Republish
    \/ Redeliver
    \/ OcrMainStart
    \/ OcrReceive
    \/ OcrBeginMessage
    \/ OcrDownload
    \/ OcrPage
    \/ OcrPatch
    \/ OcrDelete
    \/ OcrFinally

SpecOcr == InitOcr /\ [][NextOcr]_vars

-----------------------------------------------------------------------------
(* The shard loop of process_batch applied to lists of page records *)

\* Page records as the engine builds them, with texts of the three sizes.
ShardPageRecords ==
    {[ProcessHtmlBytes([magic |-> "html", readable |-> TRUE, gibberish |-> <<>>,
                        ocr_ok |-> TRUE],
                       KeyB, "", SourceId(KeyB), NoMetadata)[1][1] EXCEPT !.text = t] :
        t \in {"", "text", "long"}}

\* process_batch stands after the row loop (main.py:212) with a list of page
\* records in all_pages; nothing is tracked and nothing recorded.
InitShards ==
    /\ config \in {c \in Configs :
                     c.required_env /\ ~c.enable_tracking /\ ~c.enable_dedup}
    /\ manifest = <<>>
    /\ pc = "rows"
    /\ manifest_rows = <<>>
    /\ already_processed = {}
    /\ idx = 0
    /\ stats = ZeroStats
    /\ all_pages \in SeqsUpTo(ShardPageRecords, MaxShardPages)
    /\ processed_items = <<>>
    /\ exit_code = "none"
    /\ file_errors = {}
    /\ job_entry = NoJobEntry
    /\ lastRow = NoRow
    /\ completeCalls = <<>>
    /\ fetch_failed = FALSE
    /\ faults = FALSE
    /\ ledger = EmptyLedger
    /\ failedAtStart = {}
    /\ output = <<>>
    /\ prevRun = NoPrevRun
    /\ ocr_config = [run_once |-> TRUE, max_messages |-> 1,
                     scale_in_protection_enabled |-> FALSE]
    /\ OcrIdle

\* Another worker of the array job, with another array index, the same output
\* prefix and exchange, reaches the shard loop over the same output bucket.
OtherWorker ==
    /\ pc = "returned" /\ ~prevRun.ran
    /\ \E J \in (0..MaxJobIndex) \ {config.job_index} :
         config' = [config EXCEPT !.job_index = J]
    /\ all_pages' \in SeqsUpTo(ShardPageRecords, MaxShardPages)
    /\ pc' = "rows"
    /\ faults' = FALSE
    /\ prevRun' = [ran |-> TRUE, clean |-> FALSE]
    /\ UNCHANGED <<manifest, manifest_rows, already_processed, idx, stats,
                   processed_items, exit_code, ledger, file_errors, job_entry, output,
                   lastRow, completeCalls, fetch_failed, failedAtStart, ocrVars>>

-----------------------------------------------------------------------------
(* The page records of the two pipelines: process_document_bytes applied to *)
(* documents, and the OCR worker *)

\* A key of the form {exchange}/{company_id}/{source_id}.{ext}.
KeyD == <<"hkex", "/", "c", "/", "y", ".", "pdf">>    \* hkex/c/y.pdf

RecordKeys == {KeyA, KeyB, KeyD}

MaxDocPages == 2   \* pages of a PDF document handed to the engine

\* The documents handed to the engine: those of DocsOf, with an OCR that
\* returns or raises.
RecordDocs ==
    {[d EXCEPT !.ocr_ok = b] : d \in DocsOf(MaxDocPages), b \in BOOLEAN}

\* The environments of the extraction: EXCHANGE unset, upper or lower case,
\* ENABLE_INLINE_OCR on or off.
RecordConfigs ==
    {[c EXCEPT !.exchange = e, !.enable_inline_ocr = b] :
        c \in {c0 \in Configs : /\ c0.required_env /\ ~c0.enable_tracking
                                /\ ~c0.enable_dedup /\ c0.job_index = 0},
        e \in {"", "HKEX", "hkex"}, b \in BOOLEAN}

\* The exchange column of a manifest row: empty or set.
RowMetadata == {[exchange |-> e] : e \in {"", "SEHK"}}

InitRecords ==
    /\ WorkerIdle
    /\ ocr_config = [run_once |-> TRUE, max_messages |-> 1,
                     scale_in_protection_enabled |-> FALSE]
    /\ OcrIdle

\* main.py:169-181 in a worker process of some environment: a downloaded
\* document is handed to process_document_bytes; what it returns is noted.
ExtractDocument ==
    /\ pc = "boot"
    /\ ocr_pc \in {"done", "crashed"}
    /\ \E c \in RecordConfigs, doc \in RecordDocs, s3_key \in RecordKeys,
          metadata \in RowMetadata :
         LET ret == ProcessDocumentBytes(doc, s3_key, c.exchange, SourceId(s3_key),
                                         metadata, c.enable_inline_ocr)
         IN  /\ config' = c
             /\ lastRow' = [NoRow EXCEPT !.key = s3_key, !.path = "extract",
                                         !.downloaded = TRUE, !.ret = ret]
    /\ pc' = "rows"
    /\ UNCHANGED <<manifest, manifest_rows, already_processed, idx, stats, all_pages,
                   processed_items, exit_code, ledger, file_errors, job_entry, output,
                   completeCalls, fetch_failed, faults, failedAtStart, prevRun,
                   ocrVars>>

NextShards ==
    \/ FinishBatch
    \/ OtherWorker

SpecShards == InitShards /\ [][NextShards]_vars

-----------------------------------------------------------------------------
(* The workers of an array job over one manifest *)

MaxManifestRows == 4   \* data rows of the shared manifest

\* The environments of the array's workers: an index and a chunk size.
ManifestConfigs ==
    {[c EXCEPT !.chunk_size = n] :
        c \in {c0 \in Configs : /\ c0.required_env /\ ~c0.enable_tracking
                                /\ ~c0.enable_dedup /\ c0.exchange = ""},
        n \in 1..ChunkSize}

\* A worker of the array stands before the manifest read (main.py:126); the
\* manifest has rows with and without bucket and key.
InitManifest ==
    /\ config \in ManifestConfigs
    /\ manifest \in SeqsUpTo(Keys \cup {NoKey}, MaxManifestRows)
    /\ pc = "fetch"
    /\ manifest_rows = <<>>
    /\ already_processed = {}
    /\ idx = 0
    /\ stats = ZeroStats
    /\ all_pages = <<>>
    /\ processed_items = <<>>
    /\ exit_code = "none"
    /\ file_errors = {}
    /\ job_entry = NoJobEntry
    /\ lastRow = NoRow
    /\ completeCalls = <<>>
    /\ fetch_failed = FALSE
    /\ faults = FALSE
    /\ ledger = EmptyLedger
    /\ failedAtStart = {}
    /\ output = <<>>
    /\ prevRun = NoPrevRun
    /\ ocr_config = [run_once |-> TRUE, max_messages |-> 1,
                     scale_in_protection_enabled |-> FALSE]
    /\ OcrIdle

\* The worker of the next array index reads the same manifest.
NextArrayWorker ==
    /\ pc = "dedup"
    /\ config.job_index < MaxJobIndex
    /\ config' = [config EXCEPT !.job_index = @ + 1]
    /\ manifest_rows' = <<>>
    /\ pc' = "fetch"
    /\ UNCHANGED <<manifest, already_processed, idx, stats, all_pages,
                   processed_items, exit_code, ledger, file_errors, job_entry, output,
                   lastRow, completeCalls, fetch_failed, faults, failedAtStart,
                   prevRun, ocrVars>>

NextManifest ==
    \/ FetchManifest
    \/ NextArrayWorker

SpecManifest == InitManifest /\ [][NextManifest]_vars

NextRecords ==
    \/ ExtractDocument
    \/ pc = "boot" /\ NextOcr

SpecRecords == InitRecords /\ [][NextRecords]_vars


-----------------------------------------------------------------------------
(* Properties of the extraction worker, checked under Spec *)

\* The ledger entry of a source id under the run's partition.
EntryOf(sid) == ledger[<<MakePk(config.exchange, "extraction"), sid>>]

\* The row handled last was not skipped, was downloaded, and the engine
\* returned page records and no error for it.
LastRowFine ==
    /\ lastRow.path = "extract"
    /\ RowFine(lastRow.downloaded, lastRow.raised, lastRow.ret)

\* C1: a row that is not in the skip-set, whose download succeeds and for which
\* the engine returns page records without error is counted in files_processed
\* and not in files_failed, its pages are appended to the accumulated output,
\* and pages_extracted grows by their number.
C1_FineRowIsProcessed ==
    LastRowFine =>
        /\ lastRow.d_processed = 1
        /\ lastRow.d_failed = 0
        /\ lastRow.d_all_pages = Len(lastRow.ret[1])
        /\ lastRow.d_pages = Len(lastRow.ret[1])

\* C1, the case in point: such a row has been handled.
C1_FineRowHandled == LastRowFine

\* C2: when process_batch returns, every counter is non-negative and
\* files_processed + files_failed + files_skipped is the number of rows pulled
\* for the worker's range.
C2_CountersSumToRows ==
    pc = "returned" =>
        /\ stats.files_processed >= 0 /\ stats.files_failed >= 0
        /\ stats.files_skipped >= 0 /\ stats.pages_extracted >= 0
        /\ stats.files_processed + stats.files_failed + stats.files_skipped
             = Len(manifest_rows)

\* C2, the case in point: process_batch returned after a row whose download
\* failed.
C2_ReturnedAfterDownloadFailure ==
    pc = "returned" /\ lastRow.path = "download_failed"

C4_SkipSetOnlyCompleted ==
    /\ \A sid \in already_processed : EntryOf(sid).status = "COMPLETED"
    /\ lastRow.path = "skip" => EntryOf(SourceId(lastRow.key)).status = "COMPLETED"

\* C4, the case in point: a check that put one source id in the skip-set and
\* left out another of the slice whose entry is FAILED.
C4_SkipSetBesideFailedEntry ==
    /\ pc = "rows" /\ already_processed # {}
    /\ \E i \in DOMAIN manifest_rows :
         /\ SourceId(manifest_rows[i]) \notin already_processed
         /\ EntryOf(SourceId(manifest_rows[i])).status = "FAILED"

LastCompleteCall == completeCalls[Len(completeCalls)]

\* A worker with tracking on has exited after making a terminal call.
ExitedWithTerminalCall ==
    pc = "exited" /\ config.enable_tracking /\ completeCalls # <<>>

\* C6 as stated: the terminal state is FAILED, with an error message, exactly
\* when files_failed > 0 and files_processed = 0, and SUCCEEDED otherwise; the
\* exit status is non-zero exactly when the terminal state is FAILED.
C6_FailedIffAllFilesFailed ==
    ExitedWithTerminalCall =>
        /\ LastCompleteCall.status = "FAILED"
             <=> (stats.files_failed > 0 /\ stats.files_processed = 0)
        /\ LastCompleteCall.status \in {"FAILED", "SUCCEEDED"}
        /\ exit_code = "nonzero" <=> LastCompleteCall.status = "FAILED"

\* C6 amended: the terminal call is FAILED, with an error message, exactly when
\* files_failed > 0 and files_processed = 0 or the call is made by main's
\* exception handler, and SUCCEEDED without a message otherwise; the exit
\* status is non-zero exactly when the terminal call is FAILED.
C6_FailedIffAllFailedOrException ==
    ExitedWithTerminalCall =>
        /\ LastCompleteCall.status = "FAILED"
             <=> \/ stats.files_failed > 0 /\ stats.files_processed = 0
                 \/ LastCompleteCall.site = "except"
        /\ LastCompleteCall.status \in {"FAILED", "SUCCEEDED"}
        /\ LastCompleteCall.error_message <=> LastCompleteCall.status = "FAILED"
        /\ exit_code = "nonzero" <=> LastCompleteCall.status = "FAILED"

\* C6, the case in point: a worker whose rows all failed has exited with a
\* FAILED terminal call made on the stats.
C6_AllFailedExit ==
    /\ ExitedWithTerminalCall
    /\ LastCompleteCall.site = "stats" /\ LastCompleteCall.status = "FAILED"
    /\ stats.files_failed > 0

\* C7: when the manifest fetch fails the stats are all zero, the terminal call
\* (tracking on) is FAILED, and the worker does not end as SUCCEEDED.
C7_FetchFailureIsFatal ==
    (pc = "exited" /\ fetch_failed) =>
        /\ stats = ZeroStats
        /\ exit_code = "nonzero"
        /\ config.enable_tracking =>
             /\ completeCalls # <<>>
             /\ LastCompleteCall.status = "FAILED"

\* C7, the case in point: a worker whose manifest fetch failed has exited.
C7_ExitedAfterFetchFailure == pc = "exited" /\ fetch_failed

\* The row handled last went down the PDF path and the engine returned a
\* non-empty broken_pages list for it.
LastRowHasBrokenPages ==
    /\ lastRow.path = "extract" /\ ~lastRow.raised
    /\ lastRow.ret[3] # <<>>

\* C8: once a row on the PDF path whose extraction returned broken pages has
\* been handled, OCR messages covering those pages have been put on the queue.
C8_BrokenPagesEnqueued ==
    LastRowHasBrokenPages =>
        \A i \in DOMAIN lastRow.ret[3] :
            \E m \in queue :
                /\ m.body.source_id = SourceId(lastRow.key)
                /\ Half(lastRow.ret[3][i]) \in Range(m.body.broken_pages)

\* C8, the case in point: such a row has been handled.
C8_BrokenPagesRowHandled == LastRowHasBrokenPages

-----------------------------------------------------------------------------
(* Properties of the OCR queue publisher, checked under SpecEnqueue *)

\* C9: every message sent by enqueue_ocr_jobs has a broken_pages list that is
\* non-empty, strictly ascending, made of positive integers only, and no
\* longer than OCR_PAGE_CHUNK_SIZE as the publisher reads it.
C9_MessagePagesCanonical ==
    \A m \in queue :
        LET pages == m.body.broken_pages
        IN  /\ pages # <<>>
            /\ \A i \in DOMAIN pages : pages[i] > 0 /\ pages[i] % 2 = 0
            /\ \A i, j \in DOMAIN pages : i < j => pages[i] < pages[j]
            /\ Len(pages) <= publish.chunk_size

\* C9, the case in point: a call whose page list was out of order and held a
\* value that is not positive has sent two messages.
C9_UnsortedInputSentTwo ==
    /\ publish.phase = "returned"
    /\ Cardinality(queue) = 2
    /\ \E i \in DOMAIN publish.broken_pages :
         PyInt(publish.broken_pages[i]) <= 0
    /\ \E i, j \in DOMAIN publish.broken_pages :
         /\ i < j
         /\ PyInt(publish.broken_pages[i]) > PyInt(publish.broken_pages[j])
         /\ PyInt(publish.broken_pages[j]) > 0

-----------------------------------------------------------------------------
(* Properties of the OCR worker, checked under SpecOcr *)

\* The pages of the job in hand that lie in the document.
PagesInRange == {p \in Range(job.broken_pages) : p >= 1 /\ p <= page_count}

\* Every page of the job in hand that lies in the document had its
\* bounding-box object uploaded in this handling of the message.
AllBboxesUploaded ==
    \A p \in PagesInRange :
        p \in attempt.bbox_ok /\ BboxKey(job, p) \in bbox_objects

\* C10 as stated: the message is deleted only after every bounding-box upload
\* of its processed pages succeeded and the patch upload succeeded or was
\* skipped because the patch object exists.
C10_DeleteAfterBboxesAndPatch ==
    attempt.deleted =>
        /\ AllBboxesUploaded
        /\ attempt.patch \in {"uploaded", "exists"}

\* C10 amended: the message is deleted only after every bounding-box upload of
\* its processed pages succeeded and either the patch upload succeeded, or it
\* was skipped because the patch object exists, or no page of the job lay in
\* the document, in which case there is no patch to upload.
C10_DeleteAfterBboxesAndPatchIfAny ==
    attempt.deleted =>
        /\ AllBboxesUploaded
        /\ \/ /\ attempt.patch \in {"uploaded", "exists"}
              /\ BuildQuickwitPatchKey(job) \in DOMAIN patch_objects
           \/ PagesInRange = {} /\ attempt.patch = "none"

\* C10, the case in point: a message was deleted after bounding-box uploads
\* and a patch upload.
C10_DeletedAfterUploads ==
    /\ attempt.deleted
    /\ attempt.bbox_ok # {}
    /\ attempt.patch = "uploaded"

\* The patch objects stored at the key of the job consumed first.
PatchObjectsOfJob == {k \in DOMAIN patch_objects : k = BuildQuickwitPatchKey(consumed.job)}

SelectedPages == SelectSeq(job.broken_pages, LAMBDA p : p \in 1..page_count)

\* C12: OCR is run only on pages of job.broken_pages that lie in
\* 1..page_count, in ascending order; when _process_job returns, OCR was run
\* on exactly those pages, one bounding-box object was uploaded for each at
\* ocr-bboxes/{exchange_lower}/{source_id}/page_{N}.json, the patch records
\* carry those page numbers in that order, the returned count is their number,
\* and the pages out of range were skipped.
C12_OcrsExactlySelectedPages ==
    (ocr_pc \in {"pages", "delete"} /\ attempt.msg # 0) =>
        /\ \A i \in DOMAIN attempt.ocred :
              i <= Len(SelectedPages) /\ attempt.ocred[i] = SelectedPages[i]
        /\ \A i, k \in DOMAIN attempt.ocred : i < k => attempt.ocred[i] < attempt.ocred[k]
        /\ ocr_pc = "delete" =>
              /\ attempt.ocred = SelectedPages
              /\ attempt.uploads =
                    [i \in DOMAIN SelectedPages |->
                       <<Lower(job.exchange), job.source_id, SelectedPages[i]>>]
              /\ \A i \in DOMAIN attempt.uploads : attempt.uploads[i] \in bbox_objects
              /\ [i \in DOMAIN quickwit_records |-> quickwit_records[i].page_number]
                    = SelectedPages
              /\ attempt.processed = Len(SelectedPages)
              /\ attempt.bbox_skipped = Range(job.broken_pages) \ Range(SelectedPages)
              /\ ~attempt.failed

\* _process_job returned for a job with a page in the document and a page
\* beyond it.
C12_ReturnedWithSkippedPage ==
    /\ ocr_pc = "delete"
    /\ attempt.bbox_skipped # {}
    /\ attempt.processed >= 1

\* The message of the attempt in hand is still in the queue.
MessageInQueue == \E m \in queue : m.id = attempt.msg

LoopGoesOn ==
    /\ messages' = Tail(messages)
    /\ ocr_pc' = IF Tail(messages) # <<>> THEN "msg"
                 ELSE IF ocr_config.run_once THEN "done" ELSE "poll"

-----------------------------------------------------------------------------
(* Properties of the shards, checked under SpecShards and Spec *)

\* upload_jsonl, s3_utils.py:68: the bytes of '\n'.join(json.dumps(record)).
RECURSIVE PayloadBytes(_)
PayloadBytes(records) ==
    IF records = <<>> THEN 0
    ELSE IF Len(records) = 1 THEN JsonBytes(records[1])
    ELSE JsonBytes(Head(records)) + 1 + PayloadBytes(Tail(records))

PartsPresent ==
    {P \in 0..MaxShardPages :
        ShardKey(config.exchange, config.job_index, P) \in DOMAIN output}

C18_WorkersNeverShareKey ==
    /\ \A k \in DOMAIN output : Cardinality(output[k].writers) <= 1
    /\ \A J1, J2 \in 0..MaxJobIndex : \A P1, P2 \in 0..MaxShardPages :
          J1 # J2 => ShardKey(config.exchange, J1, P1) # ShardKey(config.exchange, J2, P2)

\* Two workers of different array indices have each put a shard object.
C18_TwoWorkersWrote ==
    \E k1, k2 \in DOMAIN output : output[k1].writers # output[k2].writers

\* The lines of the worker's shard objects in the output bucket, concatenated
\* in part-index order from part P on.
RECURSIVE ShardsConcat(_)
ShardsConcat(P) ==
    IF P > MaxShardPages THEN <<>>
    ELSE LET key == ShardKey(config.exchange, config.job_index, P)
         IN  (IF key \in DOMAIN output THEN output[key].lines ELSE <<>>)
                \o ShardsConcat(P + 1)

\* C17: when process_batch returns from a run in which nothing outside the
\* worker went wrong, the worker's shards concatenated in part-index order are
\* the accumulated page records, and every page record the engine returned for
\* a row it extracted without error is among them exactly once.
C17_ShardsHoldExtractedPages ==
    (pc = "returned" /\ ~faults) =>
        /\ ShardsConcat(0) = all_pages
        /\ LastRowFine =>
              \A i \in DOMAIN lastRow.ret[1] :
                 Cardinality({n \in DOMAIN ShardsConcat(0) :
                                ShardsConcat(0)[n] = lastRow.ret[1][i]}) = 1

\* process_batch returned from a run without outside failure whose last row
\* was extracted without error.
C17_ReturnedAfterFineRow ==
    pc = "returned" /\ ~faults /\ LastRowFine

-----------------------------------------------------------------------------
(* Properties of the page records, checked under SpecRecords *)

\* The page records process_document_bytes returned for the document in hand.
PrimaryRecords == IF lastRow.ret = NoRet THEN {} ELSE Range(lastRow.ret[1])

\* The page records the OCR worker has built or uploaded.
OcrRecords ==
    Range(quickwit_records)
        \cup UNION {Range(patch_objects[k]) : k \in DOMAIN patch_objects}

\* The id the format gives for the fields of a record.
IdOfFields(r) ==
    IF "exchange" \in DOMAIN r
    THEN <<r.exchange, "_", r.document_id, "_pg", r.page_number>>
    ELSE <<r.document_id, "_pg", r.page_number>>

\* The page number of a record lies in its document and its id is the one of
\* its fields.
PageNumberAndIdOk(r) ==
    /\ 1 <= r.page_number /\ r.page_number <= r.total_pages
    /\ r.unique_page_id = IdOfFields(r)
    /\ "exchange" \in DOMAIN r => r.exchange # ""

\* C19: every page record of the primary pipeline and of the OCR worker has
\* 1 <= page_number <= total_pages and the unique_page_id
\* {exchange}_{document_id}_pg{page_number} of its own exchange, document_id
\* and page_number when it has an exchange, {document_id}_pg{page_number}
\* when it has none; it has an exchange when the environment or the key names
\* one, and the OCR worker's records always have one.
C19_PageNumbersAndIds ==
    /\ \A r \in PrimaryRecords : PageNumberAndIdOk(r)
    /\ \A r \in OcrRecords : PageNumberAndIdOk(r)
    /\ \A r \in PrimaryRecords :
          /\ config.exchange # "" =>
                ("exchange" \in DOMAIN r /\ r.exchange = config.exchange)
          /\ ParseS3KeyMetadata(lastRow.key).exchange # "" => "exchange" \in DOMAIN r
    /\ \A r \in OcrRecords : "exchange" \in DOMAIN r

\* The engine returned the records of a two-page document without an exchange
\* and the OCR worker has uploaded a patch record.
C19_RecordsOfBothPipelines ==
    /\ \E r \in PrimaryRecords : "exchange" \notin DOMAIN r /\ r.page_number = 2
    /\ \E r \in OcrRecords : r.page_number >= 1
    /\ patch_objects # <<>>

\* The record says ocr_required.
OcrRequired(r) == "ocr_required" \in DOMAIN r /\ r.ocr_required

\* The page numbers of the returned records that say ocr_required, in the
\* order of the records.
BrokenOfRecords ==
    LET broken == SelectSeq(lastRow.ret[1], OcrRequired)
    IN  [i \in DOMAIN broken |-> broken[i].page_number]

\* The broken_pages list returned is ascending and lists exactly the pages
\* whose record says ocr_required.
BrokenPagesExact ==
    /\ lastRow.ret[3] = BrokenOfRecords
    /\ \A i, k \in DOMAIN lastRow.ret[3] : i < k => lastRow.ret[3][i] < lastRow.ret[3][k]

\* C20 as stated: every page record of the primary pipeline with ocr_required
\* has empty text, and broken_pages is the ascending list of the pages whose
\* record says ocr_required.
C20_OcrRequiredTextEmpty ==
    lastRow.ret # NoRet =>
        /\ \A r \in PrimaryRecords : OcrRequired(r) => r.text = ""
        /\ BrokenPagesExact

\* C20 amended: with inline OCR off (the default) every page record with
\* ocr_required has empty text; with inline OCR on it has the OCR text, or the
\* gibberish text layer when the OCR raised; in both cases broken_pages is the
\* ascending list of the pages whose record says ocr_required.
C20_OcrRequiredTextEmptyUnlessInline ==
    lastRow.ret # NoRet =>
        /\ \A r \in PrimaryRecords :
              OcrRequired(r) =>
                 IF config.enable_inline_ocr THEN r.text \in {"ocr", "gibberish"}
                 ELSE r.text = ""
        /\ BrokenPagesExact

\* With inline OCR off the engine returned a two-page document whose second
\* page alone is gibberish.
C20_DeferredPageReturned ==
    /\ lastRow.ret # NoRet
    /\ ~config.enable_inline_ocr
    /\ lastRow.ret[3] = <<2>>
    /\ \E r \in PrimaryRecords : OcrRequired(r) /\ r.text = "" /\ r.page_number = 2
    /\ \E r \in PrimaryRecords : ~OcrRequired(r) /\ r.page_number = 1

-----------------------------------------------------------------------------
(* Properties of the manifest ranges, checked under SpecManifest *)

\* The row indices of the manifest yielded to the worker of array index J.
YieldedTo(J) ==
    LET start_row == StartRow(J, config.chunk_size)
    IN  Range(StreamedIndices(manifest, 0, start_row,
                              EndRow(start_row, config.chunk_size)))

\* C21: the workers of two array indices are yielded disjoint sets of rows;
\* for every number N of workers, each row with bucket and key whose index is
\* below N*C is yielded to exactly one worker of 0..N-1, a row without them to
\* none; and the rows the worker in hand pulled are those of its range.
C21_RangesDisjointAndCover ==
    /\ \A J1, J2 \in 0..MaxJobIndex : J1 # J2 => YieldedTo(J1) \cap YieldedTo(J2) = {}
    /\ \A N \in 1..(MaxJobIndex + 1) : \A i \in 0..(Len(manifest) - 1) :
          /\ (i < N * config.chunk_size /\ manifest[i + 1] # NoKey) =>
                Cardinality({J \in 0..(N - 1) : i \in YieldedTo(J)}) = 1
          /\ manifest[i + 1] = NoKey => \A J \in 0..(N - 1) : i \notin YieldedTo(J)
    /\ \A J \in 0..MaxJobIndex : \A i \in YieldedTo(J) :
          J * config.chunk_size <= i /\ i < (J + 1) * config.chunk_size
    /\ pc = "dedup" =>
          /\ Len(manifest_rows) = Cardinality(YieldedTo(config.job_index))
          /\ \A r \in Range(manifest_rows) :
                \E i \in YieldedTo(config.job_index) : manifest[i + 1] = r

\* The worker of index 1 pulled rows of a manifest in which the range of
\* worker 0 holds a row without bucket or key.
C21_SecondWorkerPulledRows ==
    /\ pc = "dedup" /\ config.job_index = 1
    /\ manifest_rows # <<>>
    /\ \E i \in 0..(config.chunk_size - 1) :
          i < Len(manifest) /\ manifest[i + 1] = NoKey

-----------------------------------------------------------------------------
(* The OCR coordinate transform, extractor.py:174-231 *)

\* Lengths are counted in hundredths of a point; the provider's normalised
\* coordinates are counted in NormUnit-ths of the page.
NormUnit == 4
\* The normalised coordinates a word box may come with: below 0, inside the
\* page, 1 exactly, above 1.
MinNorm == 0 - 1
MaxNorm == 5
NormCoords == MinNorm..MaxNorm

\* page.rect of the pages drawn: A4 (595.28 x 841.88) and Letter (612 x 792).
PageRects == {[width |-> 59528, height |-> 84188], [width |-> 61200, height |-> 79200]}

\* The words OnnxTR may return for a page: a value and a geometry, which is a
\* pair of corners or something else.
WordGeometries ==
    {<<>>} \cup {<<<<x0n, y0n>>, <<x1n, y1n>>>> : x0n \in NormCoords, y0n \in NormCoords,
                                                x1n \in NormCoords, y1n \in NormCoords}
Words == [value : {"", "w"}, geometry : WordGeometries]

\* round(v, 1): the closest multiple of a tenth, the even one of two equally close.
RoundTenth(v) ==
    LET q == v \div 10
        r == v % 10
    IN  IF r < 5 THEN q * 10
        ELSE IF r > 5 THEN (q + 1) * 10
        ELSE IF q % 2 = 0 THEN q * 10 ELSE (q + 1) * 10

Max(a, b) == IF a >= b THEN a ELSE b

\* extractor.py:201-225: the box of one word in page space.
WordBbox(word, page_width, page_height) ==
    LET x0n == word.geometry[1][1]
        y0n == word.geometry[1][2]
        x1n == word.geometry[2][1]
        y1n == word.geometry[2][2]
        x0 == (x0n * page_width) \div NormUnit
        y0 == (y0n * page_height) \div NormUnit
        x1 == (x1n * page_width) \div NormUnit
        y1 == (y1n * page_height) \div NormUnit
        xlo == IF x0 > x1 THEN x1 ELSE x0
        xhi == IF x0 > x1 THEN x0 ELSE x1
        ylo == IF y0 > y1 THEN y1 ELSE y0
        yhi == IF y0 > y1 THEN y0 ELSE y1
    IN  [x0 |-> RoundTenth(Max(0, xlo)),
         y0 |-> RoundTenth(Max(0, ylo)),
         x1 |-> RoundTenth(Min(page_width, xhi)),
         y1 |-> RoundTenth(Min(page_height, yhi)),
         word |-> word.value]

\* extractor.py:194-225: words without a value or without a pair of corners are
\* passed over.
RECURSIVE OcrBboxes(_, _, _)
OcrBboxes(words, page_width, page_height) ==
    IF words = <<>> THEN <<>>
    ELSE LET word == Head(words)
             rest == OcrBboxes(Tail(words), page_width, page_height)
         IN  IF word.value = "" THEN rest
             ELSE IF Len(word.geometry) # 2 THEN rest
             ELSE <<WordBbox(word, page_width, page_height)>> \o rest

\* A rendered page with the words the provider found on it.
MaxWords == 1

InitBbox ==
    /\ WorkerIdle
    /\ ocr_config \in {c \in OcrConfigs : c.run_once /\ c.max_messages = 1
                                          /\ ~c.scale_in_protection_enabled}
    /\ OcrAtStart
    /\ \E rect \in PageRects, words \in SeqsUpTo(Words, MaxWords) :
         engine_page = [fn |-> "page", rect |-> rect, words |-> words]

\* _extract_with_onnxtr, extractor.py:174-231.
ExtractWithOnnxtr ==
    /\ engine_page.fn = "page"
    /\ engine_page' = [fn |-> "_extract_with_onnxtr",
                       rect |-> engine_page.rect,
                       words |-> engine_page.words,
                       ocr_required |-> TRUE,
                       ocr_bboxes |-> OcrBboxes(engine_page.words, engine_page.rect.width,
                                                engine_page.rect.height)]
    /\ UNCHANGED <<workerVars, peer, chunk_store, protection_log, ocr_config, queue, sent_total, ocr_pc, messages,
                   scale_in_protection_enabled, task_protected, job, page_count,
                   page_idx, quickwit_records, bbox_objects, patch_objects,
                   ecs_protected, publish, attempt, consumed>>

NextBbox == ExtractWithOnnxtr

SpecBbox == InitBbox /\ [][NextBbox]_vars

BoxInsidePage(b, rect) ==
    /\ 0 <= b.x0 /\ b.x0 <= b.x1 /\ b.x1 <= rect.width
    /\ 0 <= b.y0 /\ b.y0 <= b.y1 /\ b.y1 <= rect.height

\* C22: every bounding box the coordinate transform emits satisfies
\* 0 <= x0 <= x1 <= page_w and 0 <= y0 <= y1 <= page_h, whatever pair of corners
\* the provider returned.
C22_BoxesInsidePage ==
    engine_page.fn = "_extract_with_onnxtr" =>
        \A i \in DOMAIN engine_page.ocr_bboxes :
            BoxInsidePage(engine_page.ocr_bboxes[i], engine_page.rect)

\* C22: a box was emitted for a word whose corners lie inside the page.
C22_BoxEmittedForInnerWord ==
    /\ engine_page.fn = "_extract_with_onnxtr"
    /\ Len(engine_page.ocr_bboxes) = 1
    /\ \A c \in 1..2, d \in 1..2 : engine_page.words[1].geometry[c][d] \in 0..NormUnit

-----------------------------------------------------------------------------
(* is_gibberish, extractor.py:358-391 *)

\* extractor.py:31-33, the ratios in hundredths.
GibberishReplacementRatio == 5
GibberishUnprintableRatio == 10
MinTextLength == 20

\* A text is a sequence of runs [ch, n]: n times the character ch.  The
\* characters: a letter, SPACE (standing for SPACE, TAB, LF, CR alike), the
\* vertical tab U+000B, the replacement character U+FFFD, NUL, and a private
\* use codepoint.
Chars == {"a", " ", "vt", "fffd", "nul", "pua"}
RunLengths == {1, 2, 3, 17, 18, 20}
MaxRuns == 3
Texts == SeqsUpTo([ch : Chars, n : RunLengths], MaxRuns)

\* unicodedata.category(ch)
Category(ch) ==
    CASE ch = "a" -> "Ll"
      [] ch = " " -> "Zs"
      [] ch = "vt" -> "Cc"
      [] ch = "fffd" -> "So"
      [] ch = "nul" -> "Cc"
      [] ch = "pua" -> "Co"

\* str.isspace(ch), what str.strip() takes away
IsSpace(ch) == ch \in {" ", "vt"}

RECURSIVE TextLen(_)
TextLen(text) == IF text = <<>> THEN 0 ELSE Head(text).n + TextLen(Tail(text))

RECURSIVE LStripText(_)
LStripText(text) ==
    IF text = <<>> THEN <<>>
    ELSE IF IsSpace(Head(text).ch) THEN LStripText(Tail(text)) ELSE text

RECURSIVE RStripText(_)
RStripText(text) ==
    IF text = <<>> THEN <<>>
    ELSE IF IsSpace(text[Len(text)].ch) THEN RStripText(SubSeq(text, 1, Len(text) - 1))
    ELSE text

\* text.strip()
StripText(text) == RStripText(LStripText(text))

\* text.count(ch)
RECURSIVE CountChar(_, _)
CountChar(text, ch) ==
    IF text = <<>> THEN 0
    ELSE (IF Head(text).ch = ch THEN Head(text).n ELSE 0) + CountChar(Tail(text), ch)

\* extractor.py:379-386: the loop counting the bad characters
RECURSIVE BadCount(_)
BadCount(text) ==
    IF text = <<>> THEN 0
    ELSE (IF Head(text).ch = " " THEN 0
          ELSE IF Category(Head(text).ch) \in {"Cc", "Cn", "Co", "Cs"} THEN Head(text).n
          ELSE 0) + BadCount(Tail(text))

\* is_gibberish with the ratios taken over the trimmed text.
IsGibberishOverTrimmed(text) ==
    IF TextLen(StripText(text)) < MinTextLength THEN FALSE
    ELSE LET total == TextLen(StripText(text))
         IN  IF CountChar(text, "fffd") * 100 > GibberishReplacementRatio * total THEN TRUE
             ELSE IF BadCount(text) * 100 > GibberishUnprintableRatio * total THEN TRUE
             ELSE FALSE

\* is_gibberish, extractor.py:358-391
IsGibberish(text) ==
    IF TextLen(StripText(text)) < MinTextLength THEN FALSE
    ELSE LET total == TextLen(text)
         IN  IF CountChar(text, "fffd") * 100 > GibberishReplacementRatio * total THEN TRUE
             ELSE IF BadCount(text) * 100 > GibberishUnprintableRatio * total THEN TRUE
             ELSE FALSE

InitGibberish ==
    /\ WorkerIdle
    /\ ocr_config \in {c \in OcrConfigs : c.run_once /\ c.max_messages = 1
                                          /\ ~c.scale_in_protection_enabled}
    /\ OcrAtStart
    /\ \E text \in Texts : engine_page = [fn |-> "text", text |-> text]

\* A call is_gibberish(text) on the text layer of the page in hand.
IsGibberishCall ==
    /\ engine_page.fn = "text"
    /\ engine_page' = [fn |-> "is_gibberish", text |-> engine_page.text,
                       result |-> IsGibberish(engine_page.text)]
    /\ UNCHANGED <<workerVars, peer, chunk_store, protection_log, ocr_config, queue, sent_total, ocr_pc, messages,
                   scale_in_protection_enabled, task_protected, job, page_count,
                   page_idx, quickwit_records, bbox_objects, patch_objects,
                   ecs_protected, publish, attempt, consumed>>

NextGibberish == IsGibberishCall

SpecGibberish == InitGibberish /\ [][NextGibberish]_vars

\* The characters of a text, one by one.
RECURSIVE Spelled(_)
Spelled(text) ==
    IF text = <<>> THEN <<>>
    ELSE [i \in 1..Head(text).n |-> Head(text).ch] \o Spelled(Tail(text))

TrimmedLength(t) ==
    LET outer == {i \in DOMAIN t : ~IsSpace(t[i])}
    IN  IF outer = {} THEN 0
        ELSE (CHOOSE i \in outer : \A j \in outer : j <= i)
               - (CHOOSE i \in outer : \A j \in outer : i <= j) + 1

\* C23: is_gibberish(t) is true exactly when the whitespace-trimmed length of t
\* is at least 20 and, with N = len(t), either count(U+FFFD)/N > 0.05 or the
\* characters of category Cc, Cn, Co or Cs other than SPACE, TAB, LF, CR number
\* more than 0.10 * N; it is false for empty and whitespace-only texts.
C23_GibberishIffRatios ==
    engine_page.fn = "is_gibberish" =>
        LET t == Spelled(engine_page.text)
            N == Len(t)
            replaced == Cardinality({i \in DOMAIN t : t[i] = "fffd"})
            bad == Cardinality({i \in DOMAIN t : /\ Category(t[i]) \in {"Cc", "Cn", "Co", "Cs"}
                                                 /\ t[i] # " "})
        IN  /\ engine_page.result
                <=> /\ TrimmedLength(t) >= 20
                    /\ \/ replaced * 100 > 5 * N
                       \/ bad * 100 > 10 * N
            /\ (\A i \in DOMAIN t : t[i] = " ") => ~engine_page.result

\* C23: a text of at least 20 characters inside surrounding whitespace was
\* judged gibberish, and the whitespace around it counts in N.
C23_JudgedGibberishWithWhitespace ==
    /\ engine_page.fn = "is_gibberish"
    /\ engine_page.result
    /\ Len(engine_page.text) = 3
    /\ engine_page.text[1].ch = " "
    /\ engine_page.text[3].ch = " "

\* C24: a failure of the queue send during OCR publish is logged and does not
\* block the extraction output: the publish call comes back to the extraction
\* of the document, which keeps its pages and is counted as processed.
C24_SendFailureLoggedAndContained ==
    publish.send_failed =>
        /\ publish.phase = "returned"
        /\ \E i \in DOMAIN publish.log : publish.log[i].level \in {"warning", "error"}

\* C24: a send of the publish call has failed.
C24_SendFailed == publish.send_failed /\ publish.phase = "raised"

\* The step of process_batch's row loop that handles a row whose source id is
\* in the skip-set.
SkipSetRowStep ==
    /\ pc = "rows" /\ idx < Len(manifest_rows)
    /\ SourceId(CurKey) \in already_processed
    /\ idx' = idx + 1

\* C25: for a manifest row whose source id is in the skip-set the worker only
\* increments files_skipped: no download, no extraction, no OCR publish, no
\* dedup write, no tracking write, and no page of the row goes to the output.
C25_SkipOnlyCounts ==
    [][SkipSetRowStep =>
          /\ stats' = [stats EXCEPT !.files_skipped = @ + 1]
          /\ ~lastRow'.downloaded
          /\ lastRow'.ret = NoRet
          /\ <<queue', sent_total', publish'>> = <<queue, sent_total, publish>>
          /\ <<ledger', processed_items'>> = <<ledger, processed_items>>
          /\ <<file_errors', job_entry'>> = <<file_errors, job_entry>>
          /\ <<all_pages', output'>> = <<all_pages, output>>
          /\ pc' = "rows"]_vars

\* C25: a row was skipped in a run whose ledger and tracking writes are on.
C25_RowSkippedWithWritesOn ==
    /\ lastRow.path = "skip"
    /\ lastRow.d_skipped = 1
    /\ config.enable_tracking /\ DedupOn

\* C26: a manifest row whose download fails increments files_failed by exactly
\* one, leaves a DOWNLOAD_FAILED entry in the errors table when tracking is on
\* and a FAILED entry in the ledger when dedup is on with an exchange set, adds
\* no pages, and the loop goes on to the next row.
C26_DownloadFailureCountedOnce ==
    (lastRow.path = "download_failed" /\ pc \in {"rows", "escaped"}) =>
        /\ lastRow.d_failed = 1
        /\ lastRow.d_processed = 0 /\ lastRow.d_skipped = 0
        /\ lastRow.d_pages = 0 /\ lastRow.d_all_pages = 0
        /\ config.enable_tracking => <<lastRow.key, "DOWNLOAD_FAILED">> \in file_errors
        /\ DedupOn => EntryOf(SourceId(lastRow.key)).status = "FAILED"
        /\ pc = "rows"

\* C26: a row's download failed in a run whose tracking and dedup are on.
C26_DownloadFailedWithWritesOn ==
    /\ lastRow.path = "download_failed"
    /\ pc = "rows"
    /\ config.enable_tracking /\ DedupOn

\* The message whose handling has begun and whose finally block has not run.
InHand == ocr_pc \in {"download", "pages", "delete", "finally"}

\* A body with one of the flaws listed for rejection: a required field missing,
\* broken_pages not a list or empty, or a page number that is not positive
\* after int().
FlawedBody(body) ==
    \/ RequiredFields \ body.fields # {}
    \/ ~body.pages_is_list
    \/ body.broken_pages = <<>>
    \/ \E i \in DOMAIN body.broken_pages : PyInt(body.broken_pages[i]) <= 0

\* C27: the OCR worker rejects a body (no download, no upload, no delete) when
\* a required field is missing, when broken_pages is not a list or is empty, or
\* when broken_pages holds a page number that is not positive after integer
\* coercion; the broken_pages of an accepted job are sorted, unique and positive.
C27_FlawedBodiesRejected ==
    InHand =>
        /\ FlawedBody(Head(messages).body) =>
              /\ ocr_pc = "finally"
              /\ attempt.failed /\ ~attempt.deleted
              /\ attempt.ocred = <<>> /\ attempt.uploads = <<>> /\ attempt.patch = "none"
        /\ job # NoJob =>
              /\ job.broken_pages # <<>>
              /\ \A i \in DOMAIN job.broken_pages : job.broken_pages[i] > 0
              /\ \A i, j \in DOMAIN job.broken_pages :
                    i < j => job.broken_pages[i] < job.broken_pages[j]

\* A body _parse_job has no valid page numbers for: a required field missing,
\* broken_pages not a list or empty, or no page number that is positive after
\* int().
BodyWithoutPages(body) ==
    \/ RequiredFields \ body.fields # {}
    \/ ~body.pages_is_list
    \/ body.broken_pages = <<>>
    \/ \A i \in DOMAIN body.broken_pages : PyInt(body.broken_pages[i]) <= 0

\* C27, as the code has it: the OCR worker rejects a body (no download, no
\* upload, no delete) when a required field is missing, when broken_pages is
\* not a list or is empty, or when no page number of broken_pages is positive
\* after integer coercion; page numbers that are not positive are dropped from
\* a body that has positive ones, and the broken_pages of an accepted job are
\* the sorted, unique positive page numbers of the body.
C27_BodiesWithoutPagesRejected ==
    InHand =>
        /\ BodyWithoutPages(Head(messages).body) =>
              /\ ocr_pc = "finally"
              /\ attempt.failed /\ ~attempt.deleted
              /\ attempt.ocred = <<>> /\ attempt.uploads = <<>> /\ attempt.patch = "none"
        /\ job # NoJob =>
              /\ job.broken_pages # <<>>
              /\ \A i \in DOMAIN job.broken_pages : job.broken_pages[i] > 0
              /\ \A i, j \in DOMAIN job.broken_pages :
                    i < j => job.broken_pages[i] < job.broken_pages[j]
              /\ Range(job.broken_pages) =
                    {PyInt(n) : n \in Range(Head(messages).body.broken_pages)} \ {0 - 1, 0}

\* C27: a body holding a page number that is not positive next to a positive
\* one was accepted, and its message deleted after the job.
C27_NonPositivePageDropped ==
    /\ InHand
    /\ \E i \in DOMAIN Head(messages).body.broken_pages :
          PyInt(Head(messages).body.broken_pages[i]) <= 0
    /\ job # NoJob
    /\ attempt.deleted

\* C28: after a failed enable or disable call of the protection API the OCR
\* worker makes no further protection call for the rest of the process (the
\* feature flag stays off), and the message in hand and the later ones are
\* processed as usual: a body that parses is parsed and worked on, and the
\* worker goes on.
C28_NoProtectionCallAfterFailure ==
    protection_log.failed =>
        /\ ~scale_in_protection_enabled
        /\ ~protection_log.after_failure
        /\ ~protection_log.escaped
        /\ (InHand /\ ~ParseRaises(Head(messages).body)) =>
              job = ParseJob(Head(messages).body)

\* C28: a protection call has failed and a later message is in hand.
C28_MessageAfterFailedCall ==
    /\ protection_log.failed
    /\ InHand
    /\ attempt.msg # 0
    /\ ~scale_in_protection_enabled
    /\ ocr_pc = "pages"

-----------------------------------------------------------------------------
(* The run-once OCR worker on a queue that holds its messages already *)

\* The bodies waiting on the queue: two the publisher sent, one nobody can parse.
WaitingBodies ==
    {OcrBody("hkex", "x", "b", "k", <<1>>), OcrBody("hkex", "x", "b", "k", <<2>>),
     [fields |-> RequiredFields, exchange |-> "HKEX", source_id |-> "x",
      s3_bucket |-> "b", s3_key |-> "k", pages_is_list |-> FALSE,
      broken_pages |-> <<>>]}

InitRunOnce ==
    /\ WorkerIdle
    /\ ocr_config \in {c \in OcrConfigs : c.run_once}
    /\ \E bodies \in SeqsUpTo(WaitingBodies, MaxBatch) :
         /\ queue = {[id |-> i, body |-> bodies[i], inflight |-> FALSE] : i \in DOMAIN bodies}
         /\ sent_total = Len(bodies)
    /\ ocr_pc = "start"
    /\ messages = <<>>
    /\ scale_in_protection_enabled = FALSE
    /\ task_protected = FALSE
    /\ job = NoJob
    /\ page_count = 0
    /\ page_idx = 0
    /\ quickwit_records = <<>>
    /\ bbox_objects = {}
    /\ patch_objects = <<>>
    /\ ecs_protected = FALSE
    /\ publish = NoPublish
    /\ attempt = NoAttempt
    /\ consumed = NoConsumed
    /\ protection_log = NoProtectionCalls
    /\ chunk_store = NoChunks
    /\ peer = NoPeer
    /\ engine_page = NoPage

\* The steps of ocr_worker.main().
OcrWorker ==
    \/ OcrMainStart
    \/ OcrReceive
    \/ OcrBeginMessage
    \/ OcrDownload
    \/ OcrPage
    \/ OcrPatch
    \/ OcrDelete
    \/ OcrFinally

NextRunOnce ==
    \/ OcrWorker
    \/ Redeliver

\* The worker process keeps running: a step of main() that can be taken is taken.
SpecRunOnce == InitRunOnce /\ [][NextRunOnce]_vars /\ WF_vars(OcrWorker)

\* C29: with run_once the consume loop ends after exactly one receive cycle:
\* once the receive has been made no other follows, and the worker comes to
\* its end, whether the receive returned zero, one or several messages and
\* whether their processing succeeded or failed.
C29_RunOnceEndsAfterOneReceive ==
    /\ [][ocr_pc \notin {"start", "poll"} => ocr_pc' # "poll"]_vars
    /\ <>(ocr_pc \in {"done", "crashed"})

\* C29: the run-once worker returned after a batch of two messages, the last
\* of which failed.
C29_ReturnedAfterBatchOfTwo ==
    /\ ocr_pc = "done"
    /\ sent_total = 2
    /\ attempt.msg # 0 /\ attempt.failed
    /\ consumed.done

-----------------------------------------------------------------------------
(* A process that calls the publisher several times *)

MaxCalls == 2

\* The page lists of the calls: none, or one page.
CallPages == {<<>>, <<Half(1)>>}

InitPublisher ==
    /\ WorkerIdle
    /\ ocr_config = [run_once |-> TRUE, max_messages |-> 1,
                     scale_in_protection_enabled |-> FALSE]
    /\ queue = {}
    /\ sent_total = 0
    /\ ocr_pc = "start"
    /\ messages = <<>>
    /\ scale_in_protection_enabled = FALSE
    /\ task_protected = FALSE
    /\ job = NoJob
    /\ page_count = 0
    /\ page_idx = 0
    /\ quickwit_records = <<>>
    /\ bbox_objects = {}
    /\ patch_objects = <<>>
    /\ ecs_protected = FALSE
    /\ attempt = NoAttempt
    /\ consumed = NoConsumed
    /\ protection_log = NoProtectionCalls
    /\ chunk_store = NoChunks
    /\ peer = NoPeer
    /\ engine_page = NoPage
    /\ \E c \in ProducerCalls, broken_pages \in CallPages :
         publish = [NoPublish EXCEPT !.phase = "called", !.env = c.env,
                                     !.exchange = c.exchange,
                                     !.source_id = c.source_id,
                                     !.broken_pages = broken_pages,
                                     !.calls = 1]

\* The process calls enqueue_ocr_jobs again: the module's flag
\* _missing_queue_warning_logged and the process's log stay as they are.
EnqueueNextCall ==
    /\ publish.phase \in {"returned", "raised"}
    /\ publish.calls < MaxCalls
    /\ \E c \in ProducerCalls, broken_pages \in CallPages :
         publish' = [NoPublish EXCEPT
                       !.phase = "called", !.env = c.env, !.exchange = c.exchange,
                       !.source_id = c.source_id, !.broken_pages = broken_pages,
                       !.calls = publish.calls + 1,
                       !.log = publish.log, !.mark = Len(publish.log),
                       !.missing_queue_warning_logged = publish.missing_queue_warning_logged]
    /\ UNCHANGED <<workerVars, peer, chunk_store, engine_page, protection_log, ocr_config, queue, sent_total,
                   ocr_pc, messages, scale_in_protection_enabled, task_protected, job,
                   page_count, page_idx, quickwit_records, bbox_objects, patch_objects,
                   ecs_protected, attempt, consumed>>

NextPublisher ==
    \/ EnqueueOcrJobs
    \/ EnqueueSend
    \/ EnqueueNextCall

SpecPublisher == InitPublisher /\ [][NextPublisher]_vars

\* What the call in hand has written to the log.
CallLog == SubSeq(publish.log, publish.mark + 1, Len(publish.log))

Warnings(log, about) == {i \in DOMAIN log : log[i].level = "warning" /\ log[i].about = about}

PublishingDisabled == ~publish.env.enable_ocr_queue
QueueUrlUnset == publish.env.queue_url = ""
FieldMissing == publish.exchange = "" \/ publish.source_id = ""

\* C30: enqueue_ocr_jobs sends no message and returns zero when publishing is
\* disabled, when the queue URL is unset, or when one of exchange, source_id,
\* s3_bucket, s3_key is empty; in the disabled and unset-URL cases it logs a
\* single warning, at most one in the life of the process, and in the
\* missing-field case it logs a warning.
C30_EarlyReturnsWarn ==
    (publish.phase = "returned" /\ (PublishingDisabled \/ QueueUrlUnset \/ FieldMissing)) =>
        /\ publish.sent = <<>>
        /\ PublishingDisabled => Cardinality(Warnings(publish.log, "disabled")) = 1
        /\ (~PublishingDisabled /\ QueueUrlUnset) =>
              Cardinality(Warnings(publish.log, "no_url")) = 1
        /\ (~PublishingDisabled /\ ~QueueUrlUnset /\ FieldMissing) =>
              Warnings(CallLog, "missing") # {}

\* C30, as the code has it: the three cases send nothing and return zero.  A
\* call with an empty page list returns before anything is logged.  Otherwise
\* the disabled case logs one debug line per call and no warning, the
\* unset-URL case logs one warning at the first such call of the process and
\* nothing afterwards, and the missing-field case logs one warning per call.
C30_EarlyReturnsAndTheirLog ==
    (publish.phase = "returned" /\ (PublishingDisabled \/ QueueUrlUnset \/ FieldMissing)) =>
        /\ publish.sent = <<>>
        /\ Cardinality(Warnings(publish.log, "no_url")) <= 1
        /\ Warnings(publish.log, "disabled") = {}
        /\ IF publish.broken_pages = <<>> THEN CallLog = <<>>
           ELSE IF PublishingDisabled
           THEN CallLog = <<[level |-> "debug", about |-> "disabled"]>>
           ELSE IF QueueUrlUnset
           THEN /\ Cardinality(Warnings(publish.log, "no_url")) = 1
                /\ Len(CallLog) <= 1
                /\ CallLog = <<>> <=> Warnings(SubSeq(publish.log, 1, publish.mark), "no_url") # {}
           ELSE CallLog = <<[level |-> "warning", about |-> "missing"]>>

\* C30: the second call of a process found the queue URL unset, as the first
\* one had, and returned.
C30_SecondCallWithoutUrl ==
    /\ publish.phase = "returned"
    /\ publish.calls = 2
    /\ ~PublishingDisabled /\ QueueUrlUnset
    /\ publish.broken_pages # <<>>
    /\ CallLog = <<>>

-----------------------------------------------------------------------------
(* Chunked manifest mode: scripts/trigger_batch.py and the worker it starts *)

\* trigger_batch.py:205, the prefix the chunks are uploaded under.
ManifestPrefix == "manifests/filing-etl"

\* _upload_chunk, trigger_batch.py:97: f"{prefix}/chunk_{chunk_index:06d}.csv"
ChunkKey(prefix, chunk_index) ==
    <<prefix, "/chunk_">> \o ZeroPad(chunk_index, 6) \o <<".csv">>

\* split_and_upload_manifest, trigger_batch.py:63-80: the rows of each chunk,
\* chunk_size rows to a chunk, the rest in the last one.
SplitManifest(rows, chunk_size) ==
    [k \in 1..((Len(rows) + chunk_size - 1) \div chunk_size) |->
        SubSeq(rows, (k - 1) * chunk_size + 1, Min(k * chunk_size, Len(rows)))]

\* submit_batch_job, trigger_batch.py:122-129: the environment overrides.
SubmitOverrides(exchange) ==
    {"MANIFEST_BUCKET", "MANIFEST_PREFIX", "CHUNK_SIZE"}
        \cup (IF exchange # "" THEN {"EXCHANGE"} ELSE {})

\* What the job definition itself sets for the worker.
JobDefinitionEnv == {"OUTPUT_BUCKET"}

\* get_config and validate_config, main.py:53-79: the worker needs
\* MANIFEST_BUCKET, MANIFEST_KEY and OUTPUT_BUCKET.
ValidateConfig(env) == {"MANIFEST_BUCKET", "MANIFEST_KEY", "OUTPUT_BUCKET"} \subseteq env

InitChunked ==
    /\ config = [job_index |-> 0, chunk_size |-> ChunkSize, exchange |-> "",
                 enable_tracking |-> FALSE, enable_dedup |-> FALSE,
                 required_env |-> FALSE, enable_inline_ocr |-> InlineOcrDefault]
    /\ manifest \in SeqsUpTo(Keys \cup {NoKey}, MaxManifestRows)
    /\ FreshRun
    /\ ledger = EmptyLedger
    /\ failedAtStart = {}
    /\ output = <<>>
    /\ prevRun = NoPrevRun
    /\ ocr_config = [run_once |-> TRUE, max_messages |-> 1,
                     scale_in_protection_enabled |-> FALSE]
    /\ OcrIdle

\* trigger_batch.main: split the manifest, upload the chunks, submit the array
\* job; one of its workers, with array index J, is followed.
TriggerBatch ==
    /\ ~chunk_store.submitted
    /\ pc = "boot"
    /\ manifest # <<>>
    /\ \E chunk_size \in 1..ChunkSize, exchange \in {"", "HKEX"} :
         LET parts == SplitManifest(manifest, chunk_size)
             env == JobDefinitionEnv \cup SubmitOverrides(exchange)
         IN  \E J \in 0..(Len(parts) - 1) :
               /\ chunk_store' =
                    [objects |-> [key \in {ChunkKey(ManifestPrefix, k - 1) : k \in DOMAIN parts} |->
                                    parts[CHOOSE k \in DOMAIN parts :
                                            ChunkKey(ManifestPrefix, k - 1) = key]],
                     submitted |-> TRUE, env |-> env]
               /\ config' = [config EXCEPT !.job_index = J, !.chunk_size = chunk_size,
                                           !.exchange = exchange,
                                           !.required_env = ValidateConfig(env)]
    /\ UNCHANGED <<manifest, pc, manifest_rows, already_processed, idx, stats, all_pages,
                   processed_items, exit_code, ledger, file_errors, job_entry, output,
                   lastRow, completeCalls, fetch_failed, faults, failedAtStart, prevRun,
                   ocr_config, queue, sent_total, ocr_pc, messages,
                   scale_in_protection_enabled, task_protected, job, page_count,
                   page_idx, quickwit_records, bbox_objects, patch_objects,
                   ecs_protected, publish, attempt, consumed, protection_log,
                   engine_page, peer>>

NextChunked ==
    \/ TriggerBatch
    \/ (chunk_store.submitted /\ MainStart)

SpecChunked == InitChunked /\ [][NextChunked]_vars

\* The rows of the chunk file of the worker's array index, as the worker's
\* manifest reader yields them.
RowsOfOwnChunk ==
    LET rows == chunk_store.objects[ChunkKey(ManifestPrefix, config.job_index)]
    IN  StreamManifestRange(rows, 0, Len(rows))

\* C31: in chunked manifest mode the worker with array index J reads the rows
\* of chunk_{J:06d}.csv under the manifest prefix, the rows it would process in
\* range mode for [J*C, (J+1)*C): a worker started for the chunks goes on to its
\* rows, and the rows it has pulled are those of its chunk.
C31_ChunkedWorkerPullsOwnChunk ==
    (chunk_store.submitted /\ pc # "boot") =>
        /\ pc # "exited"
        /\ (pc # "fetch" /\ ~fetch_failed) =>
              /\ manifest_rows = RowsOfOwnChunk
              /\ manifest_rows = StreamManifestRange(manifest,
                                     config.job_index * config.chunk_size,
                                     (config.job_index + 1) * config.chunk_size)

\* C31: the worker of the second chunk was started and has ended.
C31_WorkerOfSecondChunkEnded ==
    /\ chunk_store.submitted
    /\ config.job_index = 1
    /\ Len(RowsOfOwnChunk) > 0
    /\ pc = "exited"

-----------------------------------------------------------------------------
(* The end of process_batch (main.py:212-243) after a row loop that handed *)
(* documents to the engine, and a repeated run over the same output store *)

MaxTailDocs == 2   \* documents the row loop has processed in one run

\* The page records process_document_bytes builds for the object at the key,
\* a readable document of one page.
PagesOfKey(key, exchange) ==
    ProcessDocumentBytes([magic |-> "pdf", readable |-> TRUE, gibberish |-> <<FALSE>>,
                          ocr_ok |-> TRUE],
                         key, exchange, SourceId(key), NoMetadata, FALSE)[1]

\* main.py:183-190 over the rows processed, in order: all_pages.extend(pages)
RECURSIVE TailPages(_, _)
TailPages(keys, exchange) ==
    IF keys = <<>> THEN <<>>
    ELSE PagesOfKey(Head(keys), exchange) \o TailPages(Tail(keys), exchange)

\* main.py:186-190: one processed_items entry per document processed
TailItems(keys, exchange) ==
    [i \in DOMAIN keys |->
        [source_id |-> SourceId(keys[i]), s3_key |-> keys[i],
         pages_extracted |-> Len(PagesOfKey(keys[i], exchange))]]

\* The rows one run processes: rows of different documents, in manifest order.
TailRuns(allowed) ==
    {ks \in SeqsUpTo(allowed, MaxTailDocs) :
        \A i, j \in DOMAIN ks : i # j => SourceId(ks[i]) # SourceId(ks[j])}

\* The entry of a document in the ledger of the configured exchange.
TailEntry(sid) == ledger[<<MakePk(config.exchange, "extraction"), sid>>]

\* process_batch stands after the row loop (main.py:212) of a worker with
\* dedup on: the documents of the rows it processed are in all_pages and
\* processed_items.
InitTail ==
    /\ config \in {c \in Configs :
                     /\ c.required_env /\ ~c.enable_tracking /\ c.enable_dedup
                     /\ c.exchange = "HKEX"}
    /\ manifest = <<>>
    /\ pc = "rows"
    /\ manifest_rows = <<>>
    /\ already_processed = {}
    /\ idx = 0
    /\ stats = ZeroStats
    /\ \E ks \in TailRuns(Keys) :
         /\ all_pages = TailPages(ks, config.exchange)
         /\ processed_items = TailItems(ks, config.exchange)
    /\ exit_code = "none"
    /\ file_errors = {}
    /\ job_entry = NoJobEntry
    /\ lastRow = NoRow
    /\ completeCalls = <<>>
    /\ fetch_failed = FALSE
    /\ faults = FALSE
    /\ ledger = EmptyLedger
    /\ failedAtStart = {}
    /\ output = <<>>
    /\ prevRun = NoPrevRun
    /\ ocr_config = [run_once |-> TRUE, max_messages |-> 1,
                     scale_in_protection_enabled |-> FALSE]
    /\ OcrIdle

\* The worker is run again with the same array index, output prefix and
\* exchange (main.py:140-157): the rows whose document the ledger holds as
\* COMPLETED are skipped, rows of other documents are processed, and the run
\* reaches the end of its row loop.
TailRerun ==
    /\ pc = "returned" /\ ~prevRun.ran
    /\ \E ks \in TailRuns({k \in Keys : TailEntry(SourceId(k)).status # "COMPLETED"}) :
         /\ all_pages' = TailPages(ks, config.exchange)
         /\ processed_items' = TailItems(ks, config.exchange)
    /\ pc' = "rows"
    /\ faults' = FALSE
    /\ prevRun' = [ran |-> TRUE, clean |-> FALSE]
    /\ UNCHANGED <<config, manifest, manifest_rows, already_processed, idx, stats,
                   exit_code, ledger, file_errors, job_entry, output,
                   lastRow, completeCalls, fetch_failed, failedAtStart, ocrVars>>

NextTail ==
    \/ FinishBatch
    \/ TailRerun

SpecTail == InitTail /\ [][NextTail]_vars

\* Whether the page record is a line of some object of the output store.
InSomeShard(out, page) ==
    \E k \in DOMAIN out : \E j \in DOMAIN out[k].lines : out[k].lines[j] = page

C33_CompletedNeverBackToFailed ==
    [][\A k \in DOMAIN ledger :
          ledger[k].status = "COMPLETED" => ledger'[k].status # "FAILED"]_vars

\* A run whose dedup check failed open (no skip-set although the ledger was
\* asked) has written a FAILED entry that was not FAILED when the run began.
C33_FailedWrittenAfterFailOpen ==
    /\ DedupOn /\ pc = "rows" /\ faults
    /\ already_processed = {}
    /\ \E sid \in SourceIds :
         /\ TailEntry(sid).status = "FAILED"
         /\ sid \notin failedAtStart

-----------------------------------------------------------------------------
(* The ids of the primary record and of the OCR patch record of one page *)

\* The unique_page_id of a primary record as text pieces: the model holds the
\* document id of a primary record as the pieces of the key's stem and that of
\* an OCR job as one piece; the document id is the piece before "_pg".
PrimaryIdText(r) ==
    [i \in DOMAIN r.unique_page_id |->
        IF i = Len(r.unique_page_id) - 2 THEN PartText(r.unique_page_id[i])
        ELSE r.unique_page_id[i]]

\* The OCR record is of the page of the primary record: the job was published
\* for the document with the exchange of its records (ocr_queue.py:103 sends
\* exchange.upper(), _parse_job upper-cases again).
SamePage(r, q) ==
    /\ "exchange" \in DOMAIN r
    /\ Upper(r.exchange) = q.exchange
    /\ PartText(r.document_id) = q.document_id
    /\ r.page_number = q.page_number

\* C35: for the same document and page, the unique_page_id of the OCR patch
\* record equals the unique_page_id of the primary extraction record.
C35_PatchIdEqualsPrimaryId ==
    \A r \in PrimaryRecords : \A q \in OcrRecords :
        SamePage(r, q) => PrimaryIdText(r) = q.unique_page_id

\* A patch record is uploaded for a page of which the engine, with EXCHANGE in
\* lower case, returned the primary record.
C35_PatchOfLowerCaseExchange ==
    /\ patch_objects # <<>>
    /\ \E r \in PrimaryRecords : \E q \in OcrRecords :
         SamePage(r, q) /\ r.exchange = "hkex"

-----------------------------------------------------------------------------
(* Two OCR workers with the same job: the patch object *)

\* _process_job, ocr_worker.py:198-225, when OCR and the bounding-box uploads
\* go through: one record per page of the job that is a page of the document.
RECURSIVE PeerRecords(_, _, _)
PeerRecords(j, pages, total_pages) ==
    IF pages = <<>> THEN <<>>
    ELSE (IF OutOfRange(Head(pages), total_pages) THEN <<>>
          ELSE <<BuildQuickwitRecord(j, Head(pages), total_pages)>>)
            \o PeerRecords(j, Tail(pages), total_pages)

\* The message in the first worker's hands became visible again (its
\* visibility timeout expired) and a second worker received it; that worker
\* has come to _object_exists (ocr_worker.py:228) with the records of the job.
PeerHead ==
    /\ peer.pc = "idle"
    /\ ocr_pc = "pages"
    /\ PeerRecords(job, job.broken_pages, page_count) # <<>>
    /\ \E m \in queue :
         /\ m.id = attempt.msg /\ ~m.inflight
         /\ queue' = (queue \ {m}) \cup {[m EXCEPT !.inflight = TRUE]}
    /\ LET patch_key == BuildQuickwitPatchKey(job)
       IN  peer' = [pc |-> IF ObjectExists(patch_objects, patch_key)
                           THEN "skipped" ELSE "checked",
                    key |-> patch_key,
                    records |-> PeerRecords(job, job.broken_pages, page_count),
                    overwrote |-> FALSE]
    /\ UNCHANGED <<workerVars, chunk_store, engine_page, protection_log, ocr_config,
                   sent_total, ocr_pc, messages, scale_in_protection_enabled,
                   task_protected, job, page_count, page_idx, quickwit_records,
                   bbox_objects, patch_objects, ecs_protected, publish, attempt,
                   consumed>>

\* The second worker's upload_jsonl of the patch (ocr_worker.py:230), after its
\* _object_exists returned False; noted is whether an object was at the key
\* when the upload put its own.
PeerPut ==
    /\ peer.pc = "checked"
    /\ \E uploaded \in BOOLEAN :
         /\ patch_objects' =
              IF uploaded
              THEN [k \in (DOMAIN patch_objects) \cup {peer.key} |->
                      IF k = peer.key THEN peer.records ELSE patch_objects[k]]
              ELSE patch_objects
         /\ peer' = [peer EXCEPT
                       !.pc = IF uploaded THEN "uploaded" ELSE "failed",
                       !.overwrote = uploaded /\ ObjectExists(patch_objects, peer.key)]
    /\ UNCHANGED <<workerVars, chunk_store, engine_page, protection_log, ocr_config,
                   queue, sent_total, ocr_pc, messages, scale_in_protection_enabled,
                   task_protected, job, page_count, page_idx, quickwit_records,
                   bbox_objects, ecs_protected, publish, attempt, consumed>>

InitPeer ==
    /\ WorkerIdle
    /\ ocr_config \in {c \in OcrConfigs :
                         ~c.scale_in_protection_enabled /\ c.max_messages = 1}
    /\ OcrIdle

NextPeer ==
    \/ NextOcr
    \/ PeerHead
    \/ PeerPut

SpecPeer == InitPeer /\ [][NextPeer]_vars

\* C36: no worker uploads a patch to a key at which a patch object exists.
C36_PatchWrittenAtMostOnce ==
    ~peer.overwrote

\* Both workers handled the job: the first found or put the patch object, the
\* second has been through its existence check and its upload.
C36_BothWorkersAtThePatch ==
    /\ peer.pc = "uploaded"
    /\ attempt.patch \in {"uploaded", "exists"}
    /\ attempt.msg # 0

-----------------------------------------------------------------------------
(* Scale-in protection between messages *)

\* C37: while the OCR worker is not processing a message (polling, or about to
\* begin the next message of the batch) the scale-in protection of its task is
\* off.
C37_ProtectionOffBetweenMessages ==
    ocr_pc \in {"poll", "msg"} => ~ecs_protected

\* The worker polls again after a protection call failed, its task still
\* protected.
C37_PollingWhileProtected ==
    /\ ocr_pc = "poll"
    /\ ecs_protected
    /\ protection_log.failed
    /\ ~scale_in_protection_enabled

-----------------------------------------------------------------------------
(* A message waiting for a worker that keeps consuming, under fair redelivery *)

\* One message waits in the queue of a worker that runs its loop for ever.
InitDelivery ==
    /\ WorkerIdle
    /\ ocr_config \in {c \in OcrConfigs : ~c.run_once}
    /\ \E body \in WaitingBodies :
         queue = {[id |-> 1, body |-> body, inflight |-> FALSE]}
    /\ sent_total = 1
    /\ ocr_pc = "start"
    /\ messages = <<>>
    /\ scale_in_protection_enabled = FALSE
    /\ task_protected = FALSE
    /\ job = NoJob
    /\ page_count = 0
    /\ page_idx = 0
    /\ quickwit_records = <<>>
    /\ bbox_objects = {}
    /\ patch_objects = <<>>
    /\ ecs_protected = FALSE
    /\ publish = NoPublish
    /\ attempt = NoAttempt
    /\ consumed = NoConsumed
    /\ protection_log = NoProtectionCalls
    /\ chunk_store = NoChunks
    /\ peer = NoPeer
    /\ engine_page = NoPage

\* The worker process keeps running and the queue makes a message whose
\* visibility timeout expired visible again.
SpecDelivery ==
    InitDelivery /\ [][NextRunOnce]_vars /\ WF_vars(OcrWorker) /\ WF_vars(Redeliver)

\* _process_job returned for the message in hand: download, OCR, bounding-box
\* uploads and the patch upload or existence check all succeeded in this
\* attempt, and main() stands at delete_message.
AttemptSucceeded == ocr_pc = "delete"

\* The message is no longer in the queue.
MessageDeleted(id) == \A m \in queue : m.id # id

-----------------------------------------------------------------------------
(* The skip check and rows whose keys share a basename *)

\* C39: a manifest row is skipped only if the ledger holds a COMPLETED entry
\* that was recorded for the row's own object key.
C39_SkippedOnlyForOwnKey ==
    lastRow.path = "skip" =>
        /\ EntryOf(SourceId(lastRow.key)).status = "COMPLETED"
        /\ EntryOf(SourceId(lastRow.key)).s3_key = lastRow.key

\* A row was skipped whose source id is COMPLETED in the ledger for the key of
\* another row of the manifest.
C39_SkippedForAnotherRowsKey ==
    /\ lastRow.path = "skip"
    /\ EntryOf(SourceId(lastRow.key)).status = "COMPLETED"
    /\ EntryOf(SourceId(lastRow.key)).s3_key # lastRow.key
    /\ \E i \in DOMAIN manifest : manifest[i] = EntryOf(SourceId(lastRow.key)).s3_key

=============================================================================
